---------------------------- MODULE Spec2Model ----------------------------
(***************************************************************************)
(* Model of the serial telemetry worker of Drone_Monitor_GUI               *)
(* (src/serial_location_reader.py, class SerialLocationReader).            *)
(*                                                                         *)
(* Text is modelled with TLA+ strings: Len, SubSeq and \o work on them     *)
(* character by character.  The input alphabet is ASCII: letters, digits,  *)
(* space, tab, CR, LF and the punctuation of JSON and of the coordinate    *)
(* patterns.  JSON numbers with an exponent, the literals NaN / Infinity   *)
(* and the escapes \b and \uXXXX are outside the alphabet of the inputs.   *)
(***************************************************************************)
EXTENDS Integers, Sequences, FiniteSets, TLC

-----------------------------------------------------------------------------
(* Characters and Python string helpers                                    *)

Ch(s, i) == IF i >= 1 /\ i <= Len(s) THEN SubSeq(s, i, i) ELSE ""

\* s[i-1:j] of Python: the slice is cut at the end of the string
Slice(s, i, j) == IF i > Len(s) THEN "" ELSE SubSeq(s, i, IF j > Len(s) THEN Len(s) ELSE j)

Digits == {"0", "1", "2", "3", "4", "5", "6", "7", "8", "9"}

DigitVal == [c \in Digits |->
               CASE c = "0" -> 0 [] c = "1" -> 1 [] c = "2" -> 2 [] c = "3" -> 3
                 [] c = "4" -> 4 [] c = "5" -> 5 [] c = "6" -> 6 [] c = "7" -> 7
                 [] c = "8" -> 8 [] c = "9" -> 9]

\* whitespace of str.strip() and of the regex class \s, within the alphabet
PySpace == {" ", "\t", "\n", "\r"}

\* whitespace json.loads skips between tokens
JsonWs == {" ", "\t", "\n", "\r"}

LowerTab == [A |-> "a", B |-> "b", C |-> "c", D |-> "d", E |-> "e", F |-> "f",
             G |-> "g", H |-> "h", I |-> "i", J |-> "j", K |-> "k", L |-> "l",
             M |-> "m", N |-> "n", O |-> "o", P |-> "p", Q |-> "q", R |-> "r",
             S |-> "s", T |-> "t", U |-> "u", V |-> "v", W |-> "w", X |-> "x",
             Y |-> "y", Z |-> "z"]

\* re.I: characters compare by their lower-case form
Lower(c) == IF c \in DOMAIN LowerTab THEN LowerTab[c] ELSE c

RECURSIVE LowerStr(_)
LowerStr(s) == IF s = "" THEN ""
               ELSE Lower(SubSeq(s, 1, 1)) \o LowerStr(SubSeq(s, 2, Len(s)))

\* str.lstrip(): index of the first non-space character (Len+1 if none)
RECURSIVE SkipSpace(_, _)
SkipSpace(s, i) == IF i <= Len(s) /\ Ch(s, i) \in PySpace
                   THEN SkipSpace(s, i + 1) ELSE i

\* str.rstrip(): index of the last non-space character (0 if none)
RECURSIVE BackSpace(_, _)
BackSpace(s, i) == IF i >= 1 /\ Ch(s, i) \in PySpace
                   THEN BackSpace(s, i - 1) ELSE i

lstrip(s) == SubSeq(s, SkipSpace(s, 1), Len(s))
rstrip(s) == SubSeq(s, 1, BackSpace(s, Len(s)))
strip(s)  == lstrip(rstrip(s))

startswith(s, p) == Len(s) >= Len(p) /\ SubSeq(s, 1, Len(p)) = p
endswith(s, p)   == Len(s) >= Len(p) /\ SubSeq(s, Len(s) - Len(p) + 1, Len(s)) = p

\* str.rstrip("\r\n")
RECURSIVE rstrip_crlf(_)
rstrip_crlf(s) == IF s /= "" /\ Ch(s, Len(s)) \in {"\r", "\n"}
                  THEN rstrip_crlf(SubSeq(s, 1, Len(s) - 1)) ELSE s

-----------------------------------------------------------------------------
(* Numbers.  A float is modelled as an exact decimal [m, e] = m / 10^e,    *)
(* normalised so that equal numbers have equal representations.            *)

RECURSIVE NormDec(_, _)
NormDec(m, e) == IF e > 0 /\ m % 10 = 0 THEN NormDec(m \div 10, e - 1)
                 ELSE [m |-> m, e |-> e]

\* end (exclusive) of the run of digits starting at i
RECURSIVE DigitsEnd(_, _)
DigitsEnd(s, i) == IF i <= Len(s) /\ Ch(s, i) \in Digits
                   THEN DigitsEnd(s, i + 1) ELSE i

RECURSIVE DigitsVal(_, _, _, _)
DigitsVal(s, i, j, acc) == IF i >= j THEN acc
                           ELSE DigitsVal(s, i + 1, j, acc * 10 + DigitVal[Ch(s, i)])

\* the decimal denoted by sign? digits (. digits)? occupying s[i .. j-1]
DecOf(s, i, j) ==
  LET neg  == Ch(s, i) = "-"
      i0   == IF Ch(s, i) \in {"+", "-"} THEN i + 1 ELSE i
      ie   == DigitsEnd(s, i0)
      frac == ie < j /\ Ch(s, ie) = "."
      mant == IF frac THEN DigitsVal(s, ie + 1, j, DigitsVal(s, i0, ie, 0))
              ELSE DigitsVal(s, i0, ie, 0)
      ex   == IF frac THEN j - (ie + 1) ELSE 0
      n    == NormDec(mant, ex)
  IN  [m |-> IF neg THEN 0 - n.m ELSE n.m, e |-> n.e]

-----------------------------------------------------------------------------
(* The three precompiled coordinate patterns (all with re.I).  Every       *)
(* quantifier in them is greedy; because a number can start neither with   *)
(* white space nor with a separator, and a shorter number would be         *)
(* followed by a digit or a dot, backtracking never finds a match that the *)
(* longest-match scan below misses, and the groups are those of the        *)
(* longest numbers.  search() returns the leftmost match.                  *)

\* stands for U+1F4CD ROUND PUSHPIN in the model's alphabet
PUSHPIN == "@"

LitAt(s, i, lit) == i >= 1 /\ i + Len(lit) - 1 <= Len(s)
                    /\ LowerStr(SubSeq(s, i, i + Len(lit) - 1)) = lit

\* (?:\.\d+)? after the digits that end at ie, the fraction's digits ending at fe
FracEnd(s, ie, fe) == IF Ch(s, ie) = "." /\ fe > ie + 1 THEN fe ELSE ie

\* \d+(?:\.\d+)? at i0, the digits ending at ie
DigitsFrac(s, i0, ie) == IF ie = i0 THEN 0 ELSE FracEnd(s, ie, DigitsEnd(s, ie + 1))

\* \d+(?:\.\d+)? at i0
UnsignedEnd(s, i0) == DigitsFrac(s, i0, DigitsEnd(s, i0))

\* [+-]?\d+(?:\.\d+)? at i: the end (exclusive) of the match, 0 if none
NumEnd(s, i) == UnsignedEnd(s, IF Ch(s, i) \in {"+", "-"} THEN i + 1 ELSE i)

\* [,\s]+ at i: the end (exclusive) of the run
RECURSIVE SepEnd(_, _)
SepEnd(s, i) == IF i <= Len(s) /\ Ch(s, i) \in ({","} \cup PySpace)
                THEN SepEnd(s, i + 1) ELSE i

NoMatch == [ok |-> FALSE, g1 |-> "", g2 |-> ""]

\* the match whose groups are s[a .. e1-1] and s[b .. e2-1]
Groups(s, a, e1, b, e2) ==
  IF e2 = 0 THEN NoMatch
  ELSE [ok |-> TRUE, g1 |-> SubSeq(s, a, e1 - 1), g2 |-> SubSeq(s, b, e2 - 1)]

\* Location:\s*(num)[,\s]+(num) matched at position i, piece by piece:
\* ... [,\s]+ ending at b, then (num)
LocNum2(s, a, e1, b) == IF b = e1 THEN NoMatch ELSE Groups(s, a, e1, b, NumEnd(s, b))

\* ... (num) ending at e1, then [,\s]+
LocSep(s, a, e1) == IF e1 = 0 THEN NoMatch ELSE LocNum2(s, a, e1, SepEnd(s, e1))

\* Location:\s* ending at a, then (num)
LocAt(s, i) ==
  IF ~LitAt(s, i, "location:") THEN NoMatch
  ELSE LocSep(s, SkipSpace(s, i + 9), NumEnd(s, SkipSpace(s, i + 9)))

\* <pushpin>\s*Location:... matched at position i
EmojiLocAt(s, i) ==
  IF Ch(s, i) /= PUSHPIN THEN NoMatch ELSE LocAt(s, SkipSpace(s, i + 1))

\* the end of Lab(?:rest)?: at q, 0 if it is not there
LabelEnd(s, q, short, long) ==
  IF LitAt(s, q, long) THEN q + Len(long)
  ELSE IF LitAt(s, q, short) THEN q + Len(short) ELSE 0

\* Lon(?:gitude)?:\s*(num) at q: the label ends at c, the number starts at a
LonNum(s, c, a) == [ok |-> c /= 0 /\ NumEnd(s, a) /= 0, a |-> a, e |-> NumEnd(s, a)]

LonAt(s, q) == LonNum(s, LabelEnd(s, q, "lon:", "longitude:"),
                      SkipSpace(s, LabelEnd(s, q, "lon:", "longitude:")))

\* end (exclusive) of the run of non-digits starting at i
RECURSIVE NonDigitEnd(_, _)
NonDigitEnd(s, i) == IF i <= Len(s) /\ Ch(s, i) \notin Digits
                     THEN NonDigitEnd(s, i + 1) ELSE i

\* ... \D+ is greedy: it ends at the last position q of qs
LatLonPick(s, a, e1, l) == Groups(s, a, e1, l.a, l.e)

LatLonGap(s, a, e1, qs) ==
  IF qs = {} THEN NoMatch
  ELSE LatLonPick(s, a, e1, LonAt(s, CHOOSE x \in qs : \A y \in qs : y <= x))

\* ... (num) ending at e1, then \D+ up to a position where Lon...: matches
LatLonNum(s, a, e1) ==
  IF e1 = 0 THEN NoMatch
  ELSE LatLonGap(s, a, e1, {q \in (e1 + 1)..NonDigitEnd(s, e1) : LonAt(s, q).ok})

\* Lat(?:itude)?:\s* ending at a, then (num)
LatLonLabel(s, c) ==
  IF c = 0 THEN NoMatch ELSE LatLonNum(s, SkipSpace(s, c), NumEnd(s, SkipSpace(s, c)))

\* Lat(?:itude)?:\s*(num)\D+Lon(?:gitude)?:\s*(num) matched at position i
LatLonAt(s, i) == LatLonLabel(s, LabelEnd(s, i, "lat:", "latitude:"))

\* the match at the leftmost position among the matches ms = {<<i, match>>}
Leftmost(ms) ==
  IF ms = {} THEN NoMatch ELSE (CHOOSE x \in ms : \A y \in ms : x[1] <= y[1])[2]

OkMatches(ms) == {x \in ms : x[2].ok}

\* pattern.search(line): the match at the leftmost position that has one
re_loc(s)         == Leftmost(OkMatches({<<i, LocAt(s, i)>> : i \in 1..Len(s)}))
re_emoji_loc(s)   == Leftmost(OkMatches({<<i, EmojiLocAt(s, i)>> : i \in 1..Len(s)}))
re_latlon_pair(s) == Leftmost(OkMatches({<<i, LatLonAt(s, i)>> : i \in 1..Len(s)}))

\* float(m.group(k)) of a matched number: never raises on a match
float_of_group(g) == DecOf(g, 1, Len(g) + 1)

-----------------------------------------------------------------------------
(* json.loads: a recursive-descent parser of the JSON grammar.  Values are *)
(* tagged records; an object is a function from its keys to values (a      *)
(* repeated key keeps its last value, as a Python dict does).              *)

NullV      == [t |-> "null"]
BoolV(b)   == [t |-> "bool", v |-> b]
NumV(d)    == [t |-> "num", v |-> d]
StrV(x)    == [t |-> "str", v |-> x]
ArrV(a)    == [t |-> "arr", v |-> a]
ObjV(o)    == [t |-> "obj", v |-> o]

EmptyDict  == [k \in {} |-> NullV]

PFail      == [ok |-> FALSE, pos |-> 0, val |-> NullV]
POk(p, v)  == [ok |-> TRUE, pos |-> p, val |-> v]

RECURSIVE SkipWs(_, _)
SkipWs(s, i) == IF i <= Len(s) /\ Ch(s, i) \in JsonWs THEN SkipWs(s, i + 1) ELSE i

\* the body of a string after its opening quote; acc is the decoded text
RECURSIVE ScanString(_, _, _)
ScanString(s, i, acc) ==
  LET c == Ch(s, i)
      e == Ch(s, i + 1)
  IN  IF i > Len(s) THEN PFail                       \* unterminated string
      ELSE IF c = "\"" THEN POk(i + 1, StrV(acc))
      ELSE IF c \in {"\n", "\r", "\t", "\f"} THEN PFail   \* control character (strict)
      ELSE IF c = "\\" THEN
             IF e \in {"\"", "\\", "/"} THEN ScanString(s, i + 2, acc \o e)
             ELSE IF e = "n" THEN ScanString(s, i + 2, acc \o "\n")
             ELSE IF e = "r" THEN ScanString(s, i + 2, acc \o "\r")
             ELSE IF e = "t" THEN ScanString(s, i + 2, acc \o "\t")
             ELSE IF e = "f" THEN ScanString(s, i + 2, acc \o "\f")
             ELSE PFail                              \* invalid escape
      ELSE ScanString(s, i + 1, acc \o c)

\* NUMBER_RE: (-?(?:0|[1-9]\d*))(\.\d+)? at i
ScanNumber(s, i) ==
  LET i0 == IF Ch(s, i) = "-" THEN i + 1 ELSE i
      ie == IF Ch(s, i0) = "0" THEN i0 + 1 ELSE DigitsEnd(s, i0)
      fe == DigitsEnd(s, ie + 1)
      j  == IF Ch(s, ie) = "." /\ fe > ie + 1 THEN fe ELSE ie
  IN  IF ie = i0 THEN PFail ELSE POk(j, NumV(DecOf(s, i, j)))

RECURSIVE ScanValue(_, _)
RECURSIVE ScanMembers(_, _, _)
RECURSIVE ScanElements(_, _, _)

\* after '{' or ',': "key" : value, then ',' or '}'
ScanMembers(s, i, acc) ==
  LET k  == IF Ch(s, i) = "\"" THEN ScanString(s, i + 1, "") ELSE PFail
      c  == SkipWs(s, k.pos)
      v  == IF k.ok /\ Ch(s, c) = ":" THEN ScanValue(s, SkipWs(s, c + 1)) ELSE PFail
      d  == SkipWs(s, v.pos)
      nx == (k.val.v :> v.val) @@ acc
  IN  IF ~v.ok THEN PFail
      ELSE IF Ch(s, d) = "}" THEN POk(d + 1, ObjV(nx))
      ELSE IF Ch(s, d) = "," THEN ScanMembers(s, SkipWs(s, d + 1), nx)
      ELSE PFail

\* after '[' or ',': value, then ',' or ']'
ScanElements(s, i, acc) ==
  LET v == ScanValue(s, i)
      d == SkipWs(s, v.pos)
  IN  IF ~v.ok THEN PFail
      ELSE IF Ch(s, d) = "]" THEN POk(d + 1, ArrV(Append(acc, v.val)))
      ELSE IF Ch(s, d) = "," THEN ScanElements(s, SkipWs(s, d + 1), Append(acc, v.val))
      ELSE PFail

ScanValue(s, i) ==
  LET c == Ch(s, i)
  IN  IF c = "\"" THEN ScanString(s, i + 1, "")
      ELSE IF c = "{" THEN
             IF Ch(s, SkipWs(s, i + 1)) = "}" THEN POk(SkipWs(s, i + 1) + 1, ObjV(EmptyDict))
             ELSE ScanMembers(s, SkipWs(s, i + 1), EmptyDict)
      ELSE IF c = "[" THEN
             IF Ch(s, SkipWs(s, i + 1)) = "]" THEN POk(SkipWs(s, i + 1) + 1, ArrV(<<>>))
             ELSE ScanElements(s, SkipWs(s, i + 1), <<>>)
      ELSE IF Slice(s, i, i + 3) = "null" THEN POk(i + 4, NullV)
      ELSE IF Slice(s, i, i + 3) = "true" THEN POk(i + 4, BoolV(TRUE))
      ELSE IF Slice(s, i, i + 4) = "false" THEN POk(i + 5, BoolV(FALSE))
      ELSE ScanNumber(s, i)

\* json.loads(s): [ok, val]; ok = FALSE stands for the JSONDecodeError
json_loads(s) ==
  LET r == ScanValue(s, SkipWs(s, 1))
  IN  IF r.ok /\ SkipWs(s, r.pos) = Len(s) + 1
      THEN [ok |-> TRUE, val |-> r.val]
      ELSE [ok |-> FALSE, val |-> NullV]

\* float(x) of a JSON value x: [ok, v]; ok = FALSE stands for the exception.
\* float(str) accepts surrounding white space, then sign? digits (. digits*)?
\* or sign? . digits
float_of(x) ==
  LET s  == IF x.t = "str" THEN strip(x.v) ELSE ""
      i0 == IF Ch(s, 1) \in {"+", "-"} THEN 2 ELSE 1
      ie == DigitsEnd(s, i0)
      j  == IF Ch(s, ie) = "." THEN DigitsEnd(s, ie + 1) ELSE ie
      bad == [ok |-> FALSE, v |-> [m |-> 0, e |-> 0]]
  IN  CASE x.t = "num"  -> [ok |-> TRUE, v |-> x.v]
        [] x.t = "bool" -> [ok |-> TRUE, v |-> [m |-> IF x.v THEN 1 ELSE 0, e |-> 0]]
        [] x.t = "str"  -> IF (ie > i0 \/ j > ie + 1) /\ j = Len(s) + 1
                           THEN [ok |-> TRUE, v |-> DecOf(s, 1, IF j = ie + 1 THEN ie ELSE j)]
                           ELSE bad
        [] OTHER        -> bad

-----------------------------------------------------------------------------
(* State.                                                                  *)
(*   w     the SerialLocationReader object: its attributes, under their    *)
(*         names without the leading underscore, and pc, the position of   *)
(*         its thread in run()                                             *)
(*   env   what the environment will answer to the opens and to teardown   *)
(*   dev   the results the device will return to the coming reads          *)
(*   out   the signal emissions so far, in order                           *)
(*   files the operations performed on the three sink files, in order      *)
(*   obs   observation of the run: the reads and lines processed so far    *)
(*   gui   the consumer (the main window): the events its slots have handled *)

VARIABLES w, env, dev, out, files, obs, gui

vars == <<w, env, dev, out, files, obs, gui>>

Sinks == {"log", "bin", "hex"}

\* _flush_interval_ms = 250 and the serial timeout of 0.2 s, in ticks of 50 ms
FlushInterval == 5
ReadTimeout   == 4
\* time.sleep(0.05) after the serial port is opened
OpenSleep     == 1

\* the default of the chunk parameter
DefaultChunk  == 512
\* hexwidth = max(8, int(hexwidth))
MinHexWidth   == 8

\* stand-ins, in the model's alphabet, for a byte that is not valid UTF-8
\* and for U+FFFD, the character errors="replace" decodes it to
BADBYTE     == "#"
REPLACEMENT == "?"

RECURSIVE decode_replace(_)
decode_replace(b) ==
  IF b = "" THEN ""
  ELSE (IF Ch(b, 1) = BADBYTE THEN REPLACEMENT ELSE Ch(b, 1))
         \o decode_replace(SubSeq(b, 2, Len(b)))

RECURSIVE decode_ignore(_)
decode_ignore(b) ==
  IF b = "" THEN ""
  ELSE (IF Ch(b, 1) = BADBYTE THEN "" ELSE Ch(b, 1))
         \o decode_ignore(SubSeq(b, 2, Len(b)))

-----------------------------------------------------------------------------
(* The worker's code.  Its methods are operators on a record S that holds  *)
(* the object and what it acts on: S.w, S.out, S.files, and the context of *)
(* the step: S.rd and S.ln, the index of the current read and line (0      *)
(* outside the loop), S.badw and S.badf, the sinks whose write / flush     *)
(* raises during this step.                                                *)

\* signal emissions
lineReceived(S, text) ==
  [S EXCEPT !.out = Append(@, [k |-> "raw_line", rd |-> S.rd, ln |-> S.ln, text |-> text])]

locationReceived(S, lat, lon) ==
  [S EXCEPT !.out = Append(@, [k |-> "location", rd |-> S.rd, ln |-> S.ln,
                               lat |-> lat, lon |-> lon])]

telemetryReceived(S, pkt) ==
  [S EXCEPT !.out = Append(@, [k |-> "telemetry", rd |-> S.rd, ln |-> S.ln, pkt |-> pkt])]

\* one operation on a sink file; ok = FALSE: it raised and had no effect
FileOp(S, sink, op, data, ok) ==
  [S EXCEPT !.files[sink] = Append(@, [op |-> op, data |-> data, ok |-> ok, rd |-> S.rd])]

write(S, sink, data) == FileOp(S, sink, "write", data, sink \notin S.badw)
flush(S, sink)       == FileOp(S, sink, "flush", "", sink \notin S.badf)
close(S, sink)       == FileOp(S, sink, "close", "", TRUE)

\* _safe_open: [S, fp]; the path is configured (truthy) iff it is not "none"
safe_open(S, sink, path) ==
  IF path = "none" THEN [S |-> S, fp |-> "none"]
  ELSE IF sink \in env.open_bad
       THEN [S |-> lineReceived(S, "[Serial error] failed to open " \o sink), fp |-> "none"]
       ELSE [S |-> FileOp(S, sink, "open", "", TRUE), fp |-> "open"]

\* _open_files, the hex dump: open, reset the address, announce
OpenHex(o) ==
  IF o.fp = "none" THEN [S |-> [o.S EXCEPT !.w.hex_fp = "none"], raised |-> FALSE]
  ELSE [S |-> lineReceived([o.S EXCEPT !.w.hex_fp = o.fp, !.w.hex_addr = 0],
                           "[info] Hex dump -> hex"),
        raised |-> FALSE]

\* _open_files, the binary capture: open, announce
OpenBin(o) ==
  IF o.fp = "none" THEN [o.S EXCEPT !.w.bin_fp = "none"]
  ELSE lineReceived([o.S EXCEPT !.w.bin_fp = o.fp], "[info] Binary capture -> bin")

OpenBinHex(S) == OpenHex(safe_open(OpenBin(safe_open(S, "bin", S.w.binfile)),
                                   "hex", S.w.hexdump_path))

\* _open_files, the text log: open, write and flush the LOG START marker,
\* announce.  The write and the flush are not guarded: when one raises,
\* _open_files is left at once
OpenLog(o) ==
  IF o.fp = "none" THEN OpenBinHex([o.S EXCEPT !.w.log_fp = "none"])
  ELSE IF "log" \in o.S.badw
       THEN [S |-> write([o.S EXCEPT !.w.log_fp = o.fp], "log", "=== LOG START ==="),
             raised |-> TRUE]
  ELSE IF "log" \in o.S.badf
       THEN [S |-> flush(write([o.S EXCEPT !.w.log_fp = o.fp], "log", "=== LOG START ==="),
                         "log"),
             raised |-> TRUE]
  ELSE OpenBinHex(lineReceived(flush(write([o.S EXCEPT !.w.log_fp = o.fp],
                                           "log", "=== LOG START ==="), "log"),
                               "[info] Logging to log"))

\* _open_files: [S, raised]; raised: an exception left it
open_files(S) == OpenLog(safe_open(S, "log", S.w.logfile))

FpOf(S, sink) == CASE sink = "log" -> S.w.log_fp [] sink = "bin" -> S.w.bin_fp
                   [] sink = "hex" -> S.w.hex_fp

\* for fp in (_log_fp, _bin_fp, _hex_fp): try: fp and fp.flush()  except: pass
FlushOne(S, sink) == IF FpOf(S, sink) = "none" THEN S ELSE flush(S, sink)

\* _flush_if_due; next_flush_t is kept as the ticks left until the deadline
flush_if_due(S) ==
  IF S.w.next_flush_t = 0
  THEN [FlushOne(FlushOne(FlushOne(S, "log"), "bin"), "hex")
          EXCEPT !.w.next_flush_t = FlushInterval]
  ELSE S

\* try: fp and fp.flush(); fp and fp.close()  except: pass
FlushCloseOne(S, sink) ==
  IF FpOf(S, sink) = "none" THEN S
  ELSE IF sink \in S.badf THEN flush(S, sink) ELSE close(flush(S, sink), sink)

\* _close_files
close_files(S) ==
  LET a == IF S.w.log_fp /= "none" THEN write(S, "log", "=== LOG END ===") ELSE S
      b == FlushCloseOne(FlushCloseOne(FlushCloseOne(a, "log"), "bin"), "hex")
  IN  [b EXCEPT !.w.log_fp = "none", !.w.bin_fp = "none", !.w.hex_fp = "none"]

\* log_text that writes nothing
LogNothing(S, line) == S

\* _log_text
log_text(S, line) ==
  IF S.w.log_fp = "none" THEN S
  ELSE IF "log" \in S.badw
       THEN lineReceived(write(S, "log", line), "[Serial error] logfile write failed")
       ELSE write(S, "log", line)

\* the dump lines of data: one per hexwidth bytes, each with its address
RECURSIVE HexLines(_, _, _, _)
HexLines(data, width, addr, acc) ==
  IF data = "" THEN [lines |-> acc, addr |-> addr]
  ELSE HexLines(SubSeq(data, Len(Slice(data, 1, width)) + 1, Len(data)), width,
                addr + Len(Slice(data, 1, width)),
                Append(acc, [addr |-> addr, bytes |-> Slice(data, 1, width)]))

\* _log_bin_and_hex, the binary capture
LogBin(S, data) ==
  IF S.w.bin_fp = "none" THEN S
  ELSE IF "bin" \in S.badw
       THEN lineReceived(write(S, "bin", data), "[Serial error] binfile write failed")
       ELSE write(S, "bin", data)

\* _log_bin_and_hex, the hex dump: the address advances line by line while
\* the lines are built; then they are written at once
HexWrite(S, h) ==
  IF "hex" \in S.badw
  THEN lineReceived(write([S EXCEPT !.w.hex_addr = h.addr], "hex", h.lines),
                    "[Serial error] hexdump write failed")
  ELSE write([S EXCEPT !.w.hex_addr = h.addr], "hex", h.lines)

\* LogHex that starts every input at address 0
LogHexFromZero(S, data) ==
  IF S.w.hex_fp = "none" THEN S
  ELSE HexWrite(S, HexLines(data, S.w.hexwidth, 0, <<>>))

LogHex(S, data) ==
  IF S.w.hex_fp = "none" THEN S
  ELSE HexWrite(S, HexLines(data, S.w.hexwidth, S.w.hex_addr, <<>>))

\* log_bin_and_hex that gives up the input when the binary capture fails
LogBinOrGiveUp(S, data) ==
  IF data = "" THEN S
  ELSE IF S.w.bin_fp /= "none" /\ "bin" \in S.badw THEN LogBin(S, data)
  ELSE LogHex(LogBin(S, data), data)

\* log_bin_and_hex that passes over the inputs that hold no line
LogLinesOnly(S, data) ==
  IF rstrip_crlf(data) = "" THEN S ELSE LogHex(LogBin(S, data), data)

\* _log_bin_and_hex
log_bin_and_hex(S, data) == IF data = "" THEN S ELSE LogHex(LogBin(S, data), data)

-----------------------------------------------------------------------------
(* Parsing                                                                 *)

\* a Python float as a telemetry value
FloatV(d) == NumV(d)

\* emit_latlon with the packet emitted first
EmitPacketFirst(S, lat, lon) ==
  locationReceived(telemetryReceived(S, ("latitude" :> FloatV(lat)) @@ ("longitude" :> FloatV(lon))),
                   lat, lon)

\* _emit_latlon
emit_latlon(S, lat, lon) ==
  telemetryReceived(locationReceived(S, lat, lon),
                    ("latitude" :> FloatV(lat)) @@ ("longitude" :> FloatV(lon)))

\* EmitMatch with the two groups taken in the wrong order
EmitMatchSwapped(S, m) ==
  [S |-> emit_latlon(S, float_of_group(m.g2), float_of_group(m.g1)), ret |-> TRUE]

\* a match: emit its two groups as floats, return True
EmitMatch(S, m) ==
  [S |-> emit_latlon(S, float_of_group(m.g1), float_of_group(m.g2)), ret |-> TRUE]

\* m = re_loc.search(line) or re_emoji_loc.search(line); then re_latlon_pair
FirstMatch(S, m1, me, m2) ==
  IF m1.ok THEN EmitMatch(S, m1)
  ELSE IF me.ok THEN EmitMatch(S, me)
  ELSE IF m2.ok THEN EmitMatch(S, m2)
  ELSE [S |-> S, ret |-> FALSE]

\* _parse_line_for_location: [S, ret].  float() of a matched group cannot
\* raise, so a match always emits and returns True
parse_line_for_location(S, line) ==
  FirstMatch(S, re_loc(line), re_emoji_loc(line), re_latlon_pair(line))

\* the field names _emit_json copies
Recognized == {"latitude", "longitude", "altitude", "mode", "armed", "battery_voltage",
               "remaining_minutes", "gps_sats", "gps_fix", "pitch", "roll", "yaw",
               "vx", "vy", "vz", "city_country"}

\* pkt["latitude"] = obj["lat"], pkt["longitude"] = obj["lon"]
WithLon(obj, p) == IF "lon" \in DOMAIN obj THEN ("longitude" :> obj["lon"]) @@ p ELSE p
\* WithLat that keeps the spelling of the source object
WithLatKept(obj, p) == IF "lat" \in DOMAIN obj THEN ("lat" :> obj["lat"]) @@ p ELSE p

WithLat(obj, p) == IF "lat" \in DOMAIN obj THEN ("latitude" :> obj["lat"]) @@ p ELSE p

\* PacketOf without the filter on the field names
PacketUnfiltered(obj) == WithLon(obj, WithLat(obj, obj))

\* the pkt dict _emit_json builds from the dict obj
PacketOf(obj) ==
  WithLon(obj, WithLat(obj, [k \in (DOMAIN obj) \cap Recognized |-> obj[k]]))

\* try: locationReceived.emit(float(...), float(...))  except: pass
EmitLocation(S, lat, lon) ==
  IF lat.ok /\ lon.ok THEN locationReceived(S, lat.v, lon.v) ELSE S

\* EmitPacket that drops a packet whose coordinates do not convert
EmitPacketStrict(S, pkt) ==
  IF DOMAIN pkt = {} THEN S
  ELSE IF {"latitude", "longitude"} \subseteq DOMAIN pkt
       THEN IF float_of(pkt["latitude"]).ok /\ float_of(pkt["longitude"]).ok
            THEN EmitLocation(telemetryReceived(S, pkt),
                              float_of(pkt["latitude"]), float_of(pkt["longitude"]))
            ELSE S
       ELSE telemetryReceived(S, pkt)

\* if pkt: emit it, and the location when it has both coordinates
EmitPacket(S, pkt) ==
  IF DOMAIN pkt = {} THEN S
  ELSE IF {"latitude", "longitude"} \subseteq DOMAIN pkt
       THEN EmitLocation(telemetryReceived(S, pkt),
                         float_of(pkt["latitude"]), float_of(pkt["longitude"]))
       ELSE telemetryReceived(S, pkt)

\* _emit_json
emit_json(S, obj) == EmitPacket(S, PacketOf(obj))

\* one character of the streaming path: string state, brace depth, append
FeedChar(a, ch) ==
  LET b == IF a.json_in_string
           THEN IF a.json_escape THEN [a EXCEPT !.json_escape = FALSE]
                ELSE IF ch = "\\" THEN [a EXCEPT !.json_escape = TRUE]
                ELSE IF ch = "\"" THEN [a EXCEPT !.json_in_string = FALSE]
                ELSE a
           ELSE IF ch = "\"" THEN [a EXCEPT !.json_in_string = TRUE]
                ELSE IF ch = "{" THEN [a EXCEPT !.json_depth = @ + 1]
                ELSE IF ch = "}" THEN [a EXCEPT !.json_depth = @ - 1]
                ELSE a
  IN  [b EXCEPT !.json_buf = @ \o ch]

RECURSIVE FeedChars(_, _, _)
FeedChars(a, line, i) ==
  IF i > Len(line) THEN a ELSE FeedChars(FeedChar(a, Ch(line, i)), line, i + 1)

\* the fast path's test: the line, trimmed, starts with '{' and ends with '}'
WholeObjectLine(line) ==
  startswith(lstrip(line), "{") /\ endswith(rstrip(lstrip(line)), "}")

\* LoadAndEmit that reports a parse failure as an empty packet
LoadOrEmitEmpty(S, r) ==
  IF r.ok THEN emit_json(S, r.val.v) ELSE telemetryReceived(S, EmptyDict)

\* try: obj = json.loads(text)  except: return;  _emit_json(obj)
LoadAndEmit(S, r) == IF r.ok THEN emit_json(S, r.val.v) ELSE S

\* Cleared that leaves the string flags as they are
ClearedBufferOnly(a) == [a EXCEPT !.json_buf = ""]

\* the assembler with the buffer cleared and the string flags reset
Cleared(a) == [a EXCEPT !.json_buf = "", !.json_in_string = FALSE, !.json_escape = FALSE]

\* the end of the streaming path, payload being the stripped buffer
EmitPayload(S, payload) ==
  IF startswith(payload, "{") /\ endswith(payload, "}")
  THEN LoadAndEmit(S, json_loads(payload)) ELSE S

\* StreamEnd without the test of the depth: every line ends a boundary
StreamEndEager(S, a) ==
  IF a.json_buf /= ""
  THEN EmitPayload([S EXCEPT !.w = Cleared(a)], strip(a.json_buf))
  ELSE [S EXCEPT !.w = a]

\* the streaming path after the characters are scanned into a
StreamEnd(S, a) ==
  IF a.json_depth = 0 /\ a.json_buf /= ""
  THEN EmitPayload([S EXCEPT !.w = Cleared(a)], strip(a.json_buf))
  ELSE [S EXCEPT !.w = a]

\* _feed_json_line
feed_json_line(S, line) ==
  IF line = "" THEN S
  ELSE IF WholeObjectLine(line) THEN LoadAndEmit(S, json_loads(line))
  ELSE StreamEnd(S, FeedChars(S.w, line, 1))

-----------------------------------------------------------------------------
(* run(): the bodies of the two read loops                                 *)

\* the assembler's four attributes
Asm(x) == [json_buf |-> x.json_buf, json_depth |-> x.json_depth,
           json_in_string |-> x.json_in_string, json_escape |-> x.json_escape]

\* Extract that abandons the object in progress when a pattern matches
ExtractOrAbandon(r, line) ==
  [S |-> IF r.ret THEN [r.S EXCEPT !.w.json_buf = "", !.w.json_depth = 0]
         ELSE feed_json_line(r.S, line),
   matched |-> r.ret]

\* if not self._parse_line_for_location(line): self._feed_json_line(line)
Extract(r, line) ==
  [S |-> IF r.ret THEN r.S ELSE feed_json_line(r.S, line), matched |-> r.ret]

\* S.seen records the line, whether a pattern matched it, and the
\* assembler before and after it
Observe(S, line, x) ==
  [x.S EXCEPT !.ln = 0,
              !.seen = Append(@, [rd |-> S.rd, text |-> line, matched |-> x.matched,
                                  pre |-> Asm(S.w), post |-> Asm(x.S.w)])]

\* ProcessLine that does not republish the line
ProcessLineUnpublished(S, line) ==
  Observe(S, line,
          Extract(parse_line_for_location(log_text([S EXCEPT !.ln = Len(S.seen) + 1], line),
                                          line),
                  line))

\* what both loops do with one decoded, non-empty line
ProcessLine(S, line) ==
  Observe(S, line,
          Extract(parse_line_for_location(
                    lineReceived(log_text([S EXCEPT !.ln = Len(S.seen) + 1], line), line),
                    line),
                  line))

\* if line: ...
LineBody(S, line) == IF line /= "" THEN ProcessLine(S, line) ELSE S

\* line mode: the body of the loop for a non-empty raw
LineRead(S, raw) ==
  flush_if_due(LineBody(log_bin_and_hex(S, raw), rstrip_crlf(decode_replace(raw))))

\* txt.replace("\r", "")
RECURSIVE remove_cr(_)
remove_cr(t) == IF t = "" THEN ""
                ELSE (IF Ch(t, 1) = "\r" THEN "" ELSE Ch(t, 1)) \o remove_cr(SubSeq(t, 2, Len(t)))

\* filter(None, t.split("\n")): the non-empty pieces between line feeds
RECURSIVE split_lines(_, _, _)
split_lines(t, cur, acc) ==
  IF t = "" THEN (IF cur = "" THEN acc ELSE Append(acc, cur))
  ELSE IF Ch(t, 1) = "\n"
       THEN split_lines(SubSeq(t, 2, Len(t)), "", IF cur = "" THEN acc ELSE Append(acc, cur))
       ELSE split_lines(SubSeq(t, 2, Len(t)), cur \o Ch(t, 1), acc)

RECURSIVE ProcessLines(_, _)
ProcessLines(S, lns) ==
  IF lns = <<>> THEN S ELSE ProcessLines(ProcessLine(S, Head(lns)), Tail(lns))

\* chunk mode: the body of the loop for non-empty data
ChunkRead(S, data) ==
  flush_if_due(ProcessLines(log_bin_and_hex(S, data),
                            split_lines(remove_cr(decode_ignore(data)), "", <<>>)))

\* the time a blocking call took comes off the ticks left until the flush
Elapse(S, dt) ==
  [S EXCEPT !.w.next_flush_t = IF @ > dt THEN @ - dt ELSE 0]

-----------------------------------------------------------------------------
(* Actions                                                                 *)

\* the record the methods work on, for a step with the given context
Ctx(rd, badw, badf) ==
  [w |-> w, out |-> out, files |-> files, seen |-> obs.seen,
   rd |-> rd, ln |-> 0, badw |-> badw, badf |-> badf]

\* the step's result becomes the next state
Commit(S, pc, o) ==
  /\ w' = [S.w EXCEPT !.pc = pc]
  /\ out' = S.out
  /\ files' = S.files
  /\ obs' = [o EXCEPT !.seen = S.seen]

\* one more read answered; late counts those answered after stop() was called
Answered(kind, raw) ==
  [obs EXCEPT !.reads = Append(@, [k |-> kind, raw |-> raw, stopped |-> w.stop]),
              !.late = IF w.stop THEN @ + 1 ELSE @]

\* Teardown that leaves the sinks as they are
TeardownSkipped(S) == S

\* teardown, common to both exits of run(): _close_files
Teardown(S) ==
  close_files([S EXCEPT !.badw = env.end_badw, !.badf = env.end_badf])

\* Opened that goes on to the loop whether or not the port was opened
OpenedAnyway(o) ==
  Commit(lineReceived([Elapse(o.S, OpenSleep) EXCEPT !.w.ser = "open"],
                      "[info] Serial started"),
         "check", obs)

\* the end of the try block of run(): an exception gives the diagnostic,
\* _close_files and return; else the port is open and the loop is next
Opened(o) ==
  IF o.raised \/ ~env.ser_ok
  THEN Commit(Teardown(lineReceived(o.S, "[Serial error] open failed")), "done",
              [obs EXCEPT !.teardowns = @ + 1])
  ELSE Commit(lineReceived([Elapse(o.S, OpenSleep) EXCEPT !.w.ser = "open"],
                           "[info] Serial started"),
              "check", obs)

\* run(), up to the read loop: _open_files, _open_serial
RunOpen ==
  /\ w.pc = "start"
  /\ Opened(open_files(Ctx(0, IF env.start_bad = "write" THEN {"log"} ELSE {},
                              IF env.start_bad = "flush" THEN {"log"} ELSE {})))
  /\ UNCHANGED <<env, dev, gui>>

\* the reads issued once the device has no more data to give are counted
\* and capped, to keep the runs finite
MaxIdle == 1

\* LoopCheck that does not look at the stop flag
LoopCheckNoStop ==
  /\ w.pc = "check"
  /\ IF dev = <<>> THEN obs.idle < MaxIdle ELSE TRUE
  /\ w' = [w EXCEPT !.pc = "read"]
  /\ obs' = [obs EXCEPT !.nread = @ + 1, !.idle = IF dev = <<>> THEN @ + 1 ELSE @]
  /\ UNCHANGED <<env, dev, out, files, gui>>

\* while not self._stop
LoopCheck ==
  /\ w.pc = "check"
  /\ IF w.stop
     THEN w' = [w EXCEPT !.pc = "finally"] /\ obs' = obs
     ELSE /\ IF dev = <<>> THEN obs.idle < MaxIdle ELSE TRUE
          /\ w' = [w EXCEPT !.pc = "read"]
          /\ obs' = [obs EXCEPT !.nread = @ + 1,
                                !.idle = IF dev = <<>> THEN @ + 1 ELSE @]
  /\ UNCHANGED <<env, dev, out, files, gui>>

\* the loop body of the mode, on the data d the read returned
LoopBody(S, d) == IF S.w.lines THEN LineRead(S, d.raw) ELSE ChunkRead(S, d.raw)

\* readline() / read(chunk) returns data: the rest of the loop body
ReadData ==
  /\ w.pc = "read"
  /\ dev /= <<>>
  /\ Head(dev).k = "data"
  /\ Commit(LoopBody(Elapse(Ctx(obs.nread, Head(dev).badw, Head(dev).badf), Head(dev).dt),
                     Head(dev)),
            "check", Answered("data", Head(dev).raw))
  /\ dev' = Tail(dev)
  /\ UNCHANGED <<env, gui>>

\* the read times out and returns nothing: _flush_if_due, continue
ReadEmpty ==
  /\ w.pc = "read"
  /\ IF dev = <<>> THEN TRUE ELSE Head(dev).k = "timeout"
  /\ Commit(flush_if_due(Elapse(Ctx(obs.nread, {}, IF dev = <<>> THEN {} ELSE Head(dev).badf),
                                ReadTimeout)),
            "check", Answered("timeout", ""))
  /\ dev' = IF dev = <<>> THEN dev ELSE Tail(dev)
  /\ UNCHANGED <<env, gui>>

\* ReadError with continue in the place of break
ReadErrorContinue ==
  /\ w.pc = "read"
  /\ Commit(lineReceived(Ctx(obs.nread, {}, {}), "[Serial error] read"),
            "check", Answered("error", ""))
  /\ UNCHANGED <<env, dev, gui>>

\* the read raises an Exception: the diagnostic, break
ReadError ==
  /\ w.pc = "read"
  /\ Commit(lineReceived(Ctx(obs.nread, {}, {}), "[Serial error] read"),
            "finally", Answered("error", ""))
  /\ UNCHANGED <<env, dev, gui>>

\* something the loop does not catch is raised in its body: the try
\* statement's finally clause is next
ReadCrash ==
  /\ w.pc = "read"
  /\ Commit(Ctx(obs.nread, {}, {}), "finally", Answered("crash", ""))
  /\ UNCHANGED <<env, dev, gui>>

\* the finally clause: close the port, the final flush, _close_files
Finally ==
  /\ w.pc = "finally"
  /\ Commit(Teardown(flush_if_due([Ctx(obs.nread + 1, env.end_badw, env.end_badf) EXCEPT
                                     !.w.ser = "closed", !.w.next_flush_t = 0])),
            "done", [obs EXCEPT !.teardowns = @ + 1])
  /\ UNCHANGED <<env, dev, gui>>

\* stop(), called from the consumer's thread
Stop ==
  /\ ~w.stop
  /\ w.pc /= "done"
  /\ w' = [w EXCEPT !.stop = TRUE]
  /\ UNCHANGED <<env, dev, out, files, obs, gui>>

Worker == RunOpen \/ LoopCheck \/ ReadData \/ ReadEmpty \/ ReadError \/ ReadCrash \/ Finally

Next == Worker \/ Stop

-----------------------------------------------------------------------------
(* The consumer: the main window (src/gui_mainwindow.py).  The worker's    *)
(* three signals are connected to slots of the one window object, which    *)
(* lives in the GUI thread, so every emission is posted to that thread's   *)
(* event queue and handled there later.  The events posted and not yet     *)
(* handled are those of out whose index is not in gui.got.  Of the window  *)
(* the connection state is modelled; the labels and the map are not.       *)
(*   gui.conn_state  _conn_state                                           *)
(*   gui.got         the events handled so far, by their index in out      *)
(*   gui.pc          "idle": in the event loop; "wait": inside             *)
(*                   start_serial_location, blocked in serialThread.wait() *)
(*   gui.args        the arguments of the call of start_serial_location    *)
(*                   that is under way                                     *)
(*   gui.replaced    the workers replaced so far, each as it was when      *)
(*                   serialThread was assigned its successor               *)
(*   gui.old         the number of events emitted when serialThread was    *)
(*                   last assigned: out[1..gui.old] have a replaced worker *)
(*                   as their sender, the later ones the current worker    *)
(*   gui.closed      closeEvent has run                                    *)

\* the window once start_serial_location has started the worker:
\* _set_conn(0), nothing handled yet
NewGui == [conn_state |-> 0, got |-> <<>>, pc |-> "idle", args |-> <<>>, replaced |-> <<>>,
           old |-> 0, closed |-> FALSE]

\* _set_conn
set_conn(g, state) == IF g.conn_state /= state THEN [g EXCEPT !.conn_state = state] ELSE g

\* on_serial_line that never leaves ERROR
OnSerialLineLatched(g, e) ==
  IF startswith(e.text, "[Serial error]") THEN set_conn(g, -1)
  ELSE IF g.conn_state = -1 THEN g ELSE set_conn(g, 1)

\* the slots
on_location(g, e)    == set_conn(g, 1)
on_telemetry(g, e)   == g
on_serial_line(g, e) == set_conn(g, IF startswith(e.text, "[Serial error]") THEN -1 ELSE 1)

\* the slot connected to the signal of event number i, called with it
Handle(g, i) ==
  [(CASE out[i].k = "location"  -> on_location(g, out[i])
      [] out[i].k = "telemetry" -> on_telemetry(g, out[i])
      [] out[i].k = "raw_line"  -> on_serial_line(g, out[i]))
   EXCEPT !.got = Append(gui.got, i)]

\* the events posted and not yet handled
Queued == {i \in 1..Len(out) : \A j \in 1..Len(gui.got) : gui.got[j] /= i}

\* Deliver that takes any of the queued events, not the oldest
DeliverAnyOrder ==
  /\ gui.pc = "idle"
  /\ \E i \in Queued : gui' = Handle(gui, i)
  /\ UNCHANGED <<w, env, dev, out, files, obs>>

\* the GUI thread's event loop handles the oldest queued event
Deliver ==
  /\ gui.pc = "idle"
  /\ Queued /= {}
  /\ gui' = Handle(gui, CHOOSE i \in Queued : \A j \in Queued : i <= j)
  /\ UNCHANGED <<w, env, dev, out, files, obs>>

\* the worker's thread, stop(), and the consumer's thread
NextGui == Next \/ Deliver

-----------------------------------------------------------------------------
(* Initial states: the worker as __init__ leaves it, started, with the     *)
(* answers of the environment and of the device chosen from a set.         *)

\* __init__: a path is "none" (not configured) or the name of its sink
NewWorker(lines, logfile, binfile, hexdump) ==
  [pc |-> "start", lines |-> lines, chunk |-> DefaultChunk,
   logfile |-> logfile, binfile |-> binfile, hexdump_path |-> hexdump,
   hexwidth |-> MinHexWidth,
   stop |-> FALSE, ser |-> "none",
   log_fp |-> "none", bin_fp |-> "none", hex_fp |-> "none", hex_addr |-> 0,
   next_flush_t |-> FlushInterval,
   json_buf |-> "", json_depth |-> 0, json_in_string |-> FALSE, json_escape |-> FALSE]

\* the sinks that are configured
Configured(x) == {s \in Sinks : CASE s = "log" -> x.logfile /= "none"
                                  [] s = "bin" -> x.binfile /= "none"
                                  [] s = "hex" -> x.hexdump_path /= "none"}

NoSinks  == <<"none", "none", "none">>
AllSinks == <<"log", "bin", "hex">>
LogOnly  == <<"log", "none", "none">>

\* an environment in which nothing fails
EnvOk == [ser_ok |-> TRUE, open_bad |-> {}, start_bad |-> "no",
          end_badw |-> {}, end_badf |-> {}]

\* a device answer carrying data, and a read that times out
Data(raw) == [k |-> "data", raw |-> raw, dt |-> 0, badw |-> {}, badf |-> {}]
Timeout   == [k |-> "timeout", raw |-> "", dt |-> ReadTimeout, badw |-> {}, badf |-> {}]

SeqsUpTo(S, n) == UNION {[1..k -> S] : k \in 0..n}

InitWith(Modes, SinkCfgs, Envs, Streams) ==
  /\ \E l \in Modes, c \in SinkCfgs : w = NewWorker(l, c[1], c[2], c[3])
  /\ env \in Envs
  /\ env.open_bad \subseteq Configured(w)
  /\ env.start_bad /= "no" => "log" \in Configured(w) \ env.open_bad
  /\ env.end_badw \cup env.end_badf \subseteq Configured(w) \ env.open_bad
  /\ dev \in Streams
  /\ \A i \in 1..Len(dev) : Len(dev[i].raw) <= w.chunk
  /\ out = <<>>
  /\ files = [s \in Sinks |-> <<>>]
  /\ obs = [nread |-> 0, idle |-> 0, late |-> 0, teardowns |-> 0, seen |-> <<>>, reads |-> <<>>]
  /\ gui = NewGui

-----------------------------------------------------------------------------
(* The window replaces its worker: start_serial_location is called again  *)
(* (src/gui_mainwindow.py).  The call runs in the GUI thread, which handles *)
(* no event until it returns.                                              *)

\* the calls of start_serial_location after the first are counted and
\* capped, to keep the runs finite
MaxStarts == 1

\* the arguments of those calls, the mode and the sink paths: chunk mode
\* without sinks (the first worker of every initial state reads lines and
\* keeps the text log)
StartArgs == {<<FALSE, <<"none", "none", "none">>>>}

\* start_serial_location is called again, up to wait(): _set_conn(0),
\* serialThread.stop().  serialThread is never None here: the window of
\* the initial state has started its first worker
StartSerial ==
  /\ gui.pc = "idle" /\ ~gui.closed
  /\ Len(gui.replaced) < MaxStarts
  /\ \E a \in StartArgs : gui' = [set_conn(gui, 0) EXCEPT !.pc = "wait", !.args = a]
  /\ w' = [w EXCEPT !.stop = TRUE]
  /\ UNCHANGED <<env, dev, out, files, obs>>

\* Started without the wait: the new worker is made at once
StartedNoWait ==
  /\ gui.pc = "wait"
  /\ w' = NewWorker(gui.args[1], gui.args[2][1], gui.args[2][2], gui.args[2][3])
  /\ gui' = [gui EXCEPT !.pc = "idle", !.args = <<>>, !.replaced = Append(@, w),
                         !.old = Len(out)]
  /\ UNCHANGED <<env, dev, out, files, obs>>

\* wait() returns once run() has returned; then the new worker is
\* constructed from the arguments, connected and started
Started ==
  /\ gui.pc = "wait"
  /\ w.pc = "done"
  /\ w' = NewWorker(gui.args[1], gui.args[2][1], gui.args[2][2], gui.args[2][3])
  /\ gui' = [gui EXCEPT !.pc = "idle", !.args = <<>>, !.replaced = Append(@, w),
                         !.old = Len(out)]
  /\ UNCHANGED <<env, dev, out, files, obs>>

\* the worker's thread and the consumer's, in which the window may be
\* asked for a new connection
NextWin == NextGui \/ StartSerial \/ Started

\* closeEvent up to wait(1000): serialThread.stop()
CloseEvent ==
  /\ gui.pc = "idle" /\ ~gui.closed
  /\ gui' = [gui EXCEPT !.pc = "closing"]
  /\ w' = [w EXCEPT !.stop = TRUE]
  /\ UNCHANGED <<env, dev, out, files, obs>>

\* wait(1000) returns, the worker having returned from run() or the
\* second being over, whichever comes first; then _set_conn(-1).  Nothing
\* is disconnected and the queue is left as it is: whether the event loop
\* handles more events before the application ends is up to the
\* platform, so the window is back in "idle", where Deliver may be taken
\* or not
Closed ==
  /\ gui.pc = "closing"
  /\ gui' = [set_conn(gui, -1) EXCEPT !.pc = "idle", !.closed = TRUE]
  /\ UNCHANGED <<w, env, dev, out, files, obs>>

\* the worker's thread and the consumer's, in which the window may be
\* asked for a new connection and may be closed
NextClose == NextWin \/ CloseEvent \/ Closed

-----------------------------------------------------------------------------
(* Spec: the life of one worker, with every way the opens, the reads and   *)
(* the teardown can fail, on short streams.                                *)

MaxReads == 2

LifeRaws == {"Location: 1.5, -2\n", "{\"mode\": 1}\r\n", "\r\n", "{\"lat\": 1,\n"}

\* one thing fails, or nothing
Envs == {EnvOk,
         [EnvOk EXCEPT !.ser_ok = FALSE],
         [EnvOk EXCEPT !.open_bad = {"log"}],
         [EnvOk EXCEPT !.open_bad = {"bin"}, !.ser_ok = FALSE],
         [EnvOk EXCEPT !.open_bad = Sinks],
         [EnvOk EXCEPT !.start_bad = "write"],
         [EnvOk EXCEPT !.start_bad = "flush"],
         [EnvOk EXCEPT !.end_badw = {"log"}],
         [EnvOk EXCEPT !.end_badf = {"log"}],
         [EnvOk EXCEPT !.end_badf = {"bin", "hex"}]}

Init == InitWith(BOOLEAN, {NoSinks, LogOnly, AllSinks}, Envs,
                 SeqsUpTo({Data(r) : r \in LifeRaws} \cup {Timeout}, MaxReads))

Spec == Init /\ [][Next]_vars

-----------------------------------------------------------------------------
(* SpecLive: the same worker under the fairness its thread has: it is      *)
(* scheduled, and a read returns data, nothing (the timeout) or an error.  *)

LiveRaws == {"Location: 1.5, -2\n", "{\"lat\": 1,\n"}

InitLive == InitWith(BOOLEAN, {NoSinks, LogOnly},
                     {EnvOk, [EnvOk EXCEPT !.ser_ok = FALSE],
                      [EnvOk EXCEPT !.end_badf = {"log"}]},
                     SeqsUpTo({Data(r) : r \in LiveRaws} \cup {Timeout}, MaxReads))

\* ENABLED <<Worker>>_vars as a state predicate: every step of the worker
\* changes pc, and one is possible wherever the thread stands, the capped
\* idle reads aside
WorkerEnabled ==
  \/ w.pc \in {"start", "read", "finally"}
  \/ w.pc = "check" /\ (w.stop \/ dev /= <<>> \/ obs.idle < MaxIdle)

\* weak fairness of Worker, WF_vars(Worker), with its ENABLED written out
WorkerFair == []<>(~WorkerEnabled) \/ []<><<Worker>>_vars

SpecLive == InitLive /\ [][Next]_vars /\ WorkerFair

-----------------------------------------------------------------------------
(* SpecParse: the extractor on sequences of lines of every kind: the       *)
(* coordinate phrasings, objects on one line, malformed ones, pieces of    *)
(* objects.                                                                *)

MaxLines == 2

CoordLines == {"@ LOCATION:+3 4.25 Location: 9, 9",
               "Lat: -1.5 deg Lon: 2",
               "latitude:7;longitude:8.5 Location: 0.5 6"}

ObjectLines == {"{\"altitude\": 12.5, \"mode\": 2}",
                "{\"lat\": 1, \"lon\": 2.5, \"foo\": 0}",
                " {\"latitude\": \"x\", \"lon\": 2} ",
                "{\"foo\": 1}"}

BadLines == {"{\"mode\": 1,}", "{Lat: 1.0, Lon: 2.0}"}

PieceLines == {"{\"mode\":", "1,}", "3}"}

ParseLines == CoordLines \cup ObjectLines \cup BadLines \cup PieceLines

\* each line arrives newline-terminated, in a read of its own
InitParse ==
  InitWith(BOOLEAN, {NoSinks}, {EnvOk},
           {[i \in 1..Len(q) |-> Data(q[i] \o "\n")] : q \in SeqsUpTo(ParseLines, MaxLines)})

SpecParse == InitParse /\ [][Next]_vars

-----------------------------------------------------------------------------
(* SpecSplit: one JSON object cut into consecutive pieces at every         *)
(* position, each piece arriving as the result of one read (a readline     *)
(* that timed out before the newline).                                     *)

MaxFrags == 3

\* objects with both coordinates, with a nested object, with braces and
\* with an escaped quote inside a string
CoordObj   == "{\"lat\":10.0,\"lon\":2}"
NestedObj  == "{\"mode\":{\"yaw\":1}}"
BraceObj   == "{\"mode\":\"a{b}\"}"
EscapeObj  == "{\"mode\":\"\\\"}\"}"

SplitObjs == {CoordObj, NestedObj, BraceObj, EscapeObj}

\* the ways to cut s into k non-empty consecutive pieces
RECURSIVE Cuts(_, _)
Cuts(s, k) ==
  IF k = 1 THEN {<<s>>}
  ELSE UNION {{<<SubSeq(s, 1, i)>> \o r : r \in Cuts(SubSeq(s, i + 1, Len(s)), k - 1)} :
              i \in 1..(Len(s) - k + 1)}

InitSplit ==
  InitWith(BOOLEAN, {NoSinks}, {EnvOk},
           UNION {{[i \in 1..Len(c) |-> Data(c[i])] : c \in Cuts(o, k)} :
                  o \in SplitObjs, k \in 1..MaxFrags})

SpecSplit == InitSplit /\ [][Next]_vars

-----------------------------------------------------------------------------
(* SpecGui: the worker together with the consumer's thread, which handles   *)
(* the queued events at its own pace, in both modes; a chunk may hold       *)
(* several lines.                                                           *)

\* readline() returns one line at most; read(chunk) whatever has arrived
GuiLines  == {"Location: 1.5, -2\n", "{\"lat\": 1,\n", "\"lon\": 2}\n"}
GuiChunks == {"Location: 1.5, -2\n", "{\"lat\": 1,\n\"lon\": 2}\nLat: 3 Lon: 4\n"}

\* the device opens or serial.Serial() raises
InitGui ==
  \/ InitWith({TRUE}, {NoSinks}, {EnvOk, [EnvOk EXCEPT !.ser_ok = FALSE]},
              SeqsUpTo({Data(r) : r \in GuiLines}, MaxReads))
  \/ InitWith({FALSE}, {NoSinks}, {EnvOk, [EnvOk EXCEPT !.ser_ok = FALSE]},
              SeqsUpTo({Data(r) : r \in GuiChunks}, MaxReads))

SpecGui == InitGui /\ [][NextGui]_vars

-----------------------------------------------------------------------------
(* SpecSink: the worker with its sinks, on inputs with carriage returns,   *)
(* empty lines, a byte that is not UTF-8 and more bytes than a dump line   *)
(* holds, with sinks that fail to open and writes and flushes that fail    *)
(* while the inputs are handled.                                           *)

\* readline() returns one line at most; read(chunk) whatever has arrived
SinkLines  == {"Location: 1.5, -2\r\n", "ab#cd\n", "\r\n"}
SinkChunks == {"Lat: 3 Lon: 4\r\n{\"mode\": 1}\n", "ab#cd\n\nxy", "\r\n"}

\* a device answer during which the writes to the sinks bw and the flushes
\* of the sinks bf raise
Failing(d, bw, bf) == [d EXCEPT !.badw = bw, !.badf = bf]

\* the input of Raws that takes more than one dump line
LongOf(Raws) == CHOOSE r \in Raws : Len(r) > MinHexWidth

\* the answers to the reads: the short inputs as they are; the long one
\* with the write to one sink or another raising, and arriving so late
\* that the flush is due, which raises for one sink; a read that times out
\* with the flush of the log raising
SinkAnswers(Raws) ==
  {Data(r) : r \in Raws \ {LongOf(Raws)}}
    \cup {Failing(Data(LongOf(Raws)), {s}, {}) : s \in Sinks}
    \cup {Failing([Data(LongOf(Raws)) EXCEPT !.dt = ReadTimeout], {}, {"bin"}),
          Failing(Timeout, {}, {"log"})}

SinkEnvs == {EnvOk, [EnvOk EXCEPT !.open_bad = {"hex"}]}

InitSink ==
  \/ InitWith({TRUE}, {AllSinks}, SinkEnvs, SeqsUpTo(SinkAnswers(SinkLines), MaxReads))
  \/ InitWith({FALSE}, {AllSinks}, SinkEnvs, SeqsUpTo(SinkAnswers(SinkChunks), MaxReads))

SpecSink == InitSink /\ [][Next]_vars

-----------------------------------------------------------------------------
(* SpecWin: the worker and the window, which handles the queued events at  *)
(* its own pace and may be asked for a new connection at any time.  The    *)
(* device or the text log may fail to open, and a write to the log may     *)
(* fail while a line is handled.                                           *)

\* what the device sends: a line, or a line during which the write to the
\* text log raises
WinStreams == {<<Data("Location: 1.5, -2\n")>>,
               <<Failing(Data("{\"mode\": 1}\n"), {"log"}, {})>>}

InitWin == InitWith({TRUE}, {LogOnly},
                    {EnvOk, [EnvOk EXCEPT !.ser_ok = FALSE], [EnvOk EXCEPT !.open_bad = {"log"}]},
                    WinStreams)

SpecWin == InitWin /\ [][NextWin]_vars

\* SpecClose: the same, with a window that may be closed
SpecClose == InitWin /\ [][NextClose]_vars

-----------------------------------------------------------------------------

(* SpecChunk: one byte stream of two lines, read in line mode, each line   *)
(* the result of one readline(), and in chunk mode, where read(chunk)      *)
(* returns whatever has arrived: the stream cut into consecutive pieces at *)
(* every position.                                                         *)

ChunkLines == <<"Lat: 3 Lon: 42\n", "{\"mode\": 1}\n">>

InitChunk ==
  \/ InitWith({TRUE}, {NoSinks}, {EnvOk}, {[i \in 1..Len(ChunkLines) |-> Data(ChunkLines[i])]})
  \/ InitWith({FALSE}, {NoSinks}, {EnvOk},
              UNION {{[i \in 1..Len(c) |-> Data(c[i])] : c \in Cuts(ChunkLines[1] \o ChunkLines[2], k)} :
                     k \in 1..MaxFrags})

SpecChunk == InitChunk /\ [][Next]_vars

-----------------------------------------------------------------------------

(* SpecFrame: the framing of JSON objects on lines that do not hold just   *)
(* one object: two objects on a line, the end of one object and the start  *)
(* of the next on a line, and an object in two lines that follows one line *)
(* of garbage.  Each line arrives newline-terminated in a read of its own. *)

TwoOnLine    == <<"{\"mode\":1}{\"yaw\":2}">>
EndThenStart == <<"{\"mode\":", "1}{\"yaw\":", "2}">>
InTwoLines   == <<"{\"mode\":", "3}">>

\* lines that are no part of any object: a closing brace, an opening brace,
\* a string left open inside braces, a quote by itself, a malformed object
Garbage == {"3}", "{", "{\"a", "\"", "{\"mode\": 1,}"}

FrameTexts == {TwoOnLine, EndThenStart, InTwoLines} \cup {<<g>> \o InTwoLines : g \in Garbage}

InitFrame == InitWith(BOOLEAN, {NoSinks}, {EnvOk},
                      {[i \in 1..Len(q) |-> Data(q[i] \o "\n")] : q \in FrameTexts})

SpecFrame == InitFrame /\ [][Next]_vars

-----------------------------------------------------------------------------
(* Observations the properties are stated on                               *)

\* the events emitted while line i of obs.seen was processed: what was
\* extracted from it, and the raw_line events
Extracted(i) == SelectSeq(out, LAMBDA e : e.ln = i /\ e.k /= "raw_line")
RawLines(i)  == SelectSeq(out, LAMBDA e : e.ln = i /\ e.k = "raw_line")

\* the events emitted during read i
DuringRead(i) == SelectSeq(out, LAMBDA e : e.rd = i)

IsDiagnostic(e) == e.k = "raw_line" /\ Slice(e.text, 1, 14) = "[Serial error]"

OpenFailed(e) == e.k = "raw_line" /\ e.text = "[Serial error] open failed"

\* the notices _open_files emits
SinkNotices == {"[info] Logging to log", "[info] Binary capture -> bin",
                "[info] Hex dump -> hex"}
               \cup {"[Serial error] failed to open " \o s : s \in Sinks}

HandlesAbsent == w.log_fp = "none" /\ w.bin_fp = "none" /\ w.hex_fp = "none"

\* the operations on sink s end with those of _close_files: the flush and
\* the close (the flush alone when it raised), after the LOG END marker on
\* the text log; before them, on the path through the finally clause, the
\* flush forced by resetting the throttle clock
ClosedAt(f, n) == \/ f[n].op = "flush" /\ ~f[n].ok
                  \/ n >= 2 /\ f[n].op = "close" /\ f[n - 1].op = "flush" /\ f[n - 1].ok

FlushAt(f, n) == IF f[n].op = "close" THEN n - 1 ELSE n

TornDown(s) ==
  LET f == files[s]
      n == Len(f)
      k == FlushAt(f, n)
  IN  n = 0 \/ /\ ClosedAt(f, n)
               /\ s = "log" => k >= 2 /\ f[k - 1].op = "write"
                                      /\ f[k - 1].data = "=== LOG END ==="
               /\ w.ser = "closed" =>
                    LET j == IF s = "log" THEN k - 2 ELSE k - 1
                    IN  j >= 1 /\ f[j].op = "flush"

-----------------------------------------------------------------------------
(* C7 *)

\* C7, as stated: when the serial device cannot be opened, the worker's only
\* emission of the run is one fatal diagnostic, and it reads nothing,
\* whatever sinks are configured.
C7_OnlyEmission ==
  (~env.ser_ok /\ w.pc /= "start") =>
     /\ Len(out) = 1 /\ OpenFailed(out[1])
     /\ obs.nread = 0 /\ obs.reads = <<>>

\* C7, amended: when the serial device cannot be opened, the run is over at
\* once: no read is issued, no location or telemetry event is emitted, and
\* exactly one "open failed" diagnostic is emitted, as the last emission;
\* before it come only the notices of the configured sinks (opened, or
\* failed to open), which _open_files emits before the port is tried.
C7_OpenFailure ==
  (~env.ser_ok /\ w.pc /= "start") =>
     /\ w.pc = "done" /\ w.ser = "none"
     /\ obs.nread = 0 /\ obs.reads = <<>> /\ obs.seen = <<>>
     /\ Len(out) >= 1 /\ OpenFailed(out[Len(out)])
     /\ \A i \in 1..(Len(out) - 1) : out[i].k = "raw_line" /\ out[i].text \in SinkNotices
     /\ Len(out) - 1 <= Cardinality(Configured(w))

\* the port failed to open after a sink was announced
C7_Witness == ~env.ser_ok /\ w.pc = "done" /\ Len(out) > 1 /\ OpenFailed(out[Len(out)])

-----------------------------------------------------------------------------
(* C8 *)

\* C8: every run ends with teardown exactly once, whatever the exit path
\* (stop, read error, open failure, an exception in the loop): a final
\* flush that does not wait for the throttle clock, the LOG END marker when
\* the text log is open, the three handles set to absent, and no operation
\* on a sink after it.
C8_TeardownOnce ==
  /\ obs.teardowns = (IF w.pc = "done" THEN 1 ELSE 0)
  /\ w.pc = "done" => /\ HandlesAbsent
                      /\ \A s \in Sinks : TornDown(s)
  /\ w.pc /= "done" => \A s \in Sinks : \A i \in 1..Len(files[s]) : files[s][i].op /= "close"

\* a run that an exception inside the loop ended, with the text log open
\* and the throttle clock not yet due
C8_Witness ==
  /\ w.pc = "done" /\ ~w.stop
  /\ obs.reads /= <<>> /\ obs.reads[Len(obs.reads)].k = "crash"
  /\ Len(files["log"]) >= 5
  /\ files["log"][Len(files["log"])].op = "close"

-----------------------------------------------------------------------------
(* C9 *)

\* C9: the stop flag is looked at once per iteration of the read loop: once
\* stop() has been called no read is issued any more, at most one read (the
\* one in flight) is answered and processed, and, every read returning, the
\* worker ends with teardown done.
C9_StopHonoured ==
  /\ [][w.stop => obs'.nread = obs.nread]_vars
  /\ [](obs.late <= 1)
  /\ (w.stop ~> (w.pc = "done" /\ obs.teardowns = 1 /\ HandlesAbsent))

\* stop() came while a read was in flight; its data were processed and the
\* worker ended
C9_Witness ==
  /\ w.stop /\ w.pc = "done" /\ obs.late = 1
  /\ obs.reads[Len(obs.reads)].k = "data" /\ obs.reads[Len(obs.reads)].stopped
  /\ obs.seen /= <<>> /\ obs.seen[Len(obs.seen)].rd = Len(obs.reads)

-----------------------------------------------------------------------------
(* C10 *)

\* C10: when a read of the device raises, in line mode or in chunk mode,
\* the worker emits one raw_line with the "[Serial error]" prefix, issues no
\* further read, emits no location or telemetry afterwards, closes the
\* device and performs the whole teardown.
C10_ReadError ==
  \A i \in 1..Len(obs.reads) :
    obs.reads[i].k = "error" =>
      /\ i = Len(obs.reads) /\ obs.nread = i
      /\ w.pc \in {"finally", "done"}
      /\ Len(DuringRead(i)) = 1 /\ IsDiagnostic(DuringRead(i)[1])
      /\ out[Len(out)] = DuringRead(i)[1]
      /\ w.pc = "done" => /\ w.ser = "closed" /\ HandlesAbsent /\ obs.teardowns = 1
                          /\ \A s \in Sinks : TornDown(s)

\* a read raised after data had been read and a location emitted; the
\* worker ended
C10_Witness ==
  /\ w.pc = "done" /\ ~w.stop /\ Len(obs.reads) >= 2
  /\ obs.reads[Len(obs.reads)].k = "error"
  /\ \E i \in 1..Len(out) : out[i].k = "location"
  /\ files["hex"] /= <<>>

-----------------------------------------------------------------------------
(* Observations on lines.  The properties bind what they compute from a    *)
(* line (its match, its parse, its events) with a quantifier over a        *)
(* one-element set, so that it is computed once.                           *)

\* the read just answered, in the state that follows it: the worker is
\* back at the head of the loop.  Every read is the one just answered once;
\* out, files and obs only grow, and nothing later bears the read's index
JustRead == IF w.pc = "check" /\ obs.reads /= <<>> THEN {Len(obs.reads)} ELSE {}

\* the lines of the read just answered, in the state that follows it: the
\* worker is back at the head of the loop.  Every line is among them once;
\* out and obs.seen only grow, and no later event bears the line's index
JustProcessed ==
  IF w.pc = "check"
  THEN {i \in 1..Len(obs.seen) : obs.seen[i].rd = Len(obs.reads)}
  ELSE {}

\* the loop is left on a stop request or when a read raises, never because
\* of what a line holds
LoopLeftOnRequest ==
  w.pc \in {"finally", "done"} =>
    \/ w.stop
    \/ obs.reads /= <<>> /\ obs.reads[Len(obs.reads)].k \in {"error", "crash"}

\* the assembler a with the characters lo..hi of t scanned in, one after
\* the other.  The range is taken by halves and the result of the first
\* half is computed before the second is entered, which keeps the
\* evaluation shallow
RECURSIVE ScanRange(_, _, _, _)
ScanRange(a, t, lo, hi) ==
  IF lo > hi THEN a
  ELSE IF lo = hi THEN FeedChar(a, Ch(t, lo))
  ELSE CHOOSE r \in {ScanRange(b, t, m + 1, hi) :
                      b \in {ScanRange(a, t, lo, m) : m \in {(lo + hi) \div 2}},
                      m \in {(lo + hi) \div 2}} : TRUE

\* the assembler pre with all the characters of t scanned in
Scanned(pre, t) == ScanRange(pre, t, 1, Len(t))

\* the match _parse_line_for_location acts on
PatternMatch(t) ==
  IF re_loc(t).ok THEN re_loc(t)
  ELSE IF re_emoji_loc(t).ok THEN re_emoji_loc(t) ELSE re_latlon_pair(t)

\* r, the result of json.loads, is a well-formed JSON object
IsObject(r) == r.ok /\ r.val.t = "obj"

\* the names under which the recognized fields of obj appear in a packet,
\* and the value of each
FieldsOf(obj) ==
  ((DOMAIN obj) \cap Recognized)
    \cup (IF "lat" \in DOMAIN obj THEN {"latitude"} ELSE {})
    \cup (IF "lon" \in DOMAIN obj THEN {"longitude"} ELSE {})

FieldValue(obj, k) ==
  IF k = "latitude" /\ "lat" \in DOMAIN obj THEN obj["lat"]
  ELSE IF k = "longitude" /\ "lon" \in DOMAIN obj THEN obj["lon"]
  ELSE obj[k]

\* both coordinates are among the fields and convert to numbers
Locatable(obj) ==
  /\ {"latitude", "longitude"} \subseteq FieldsOf(obj)
  /\ float_of(FieldValue(obj, "latitude")).ok
  /\ float_of(FieldValue(obj, "longitude")).ok

\* the events x are one telemetry, which carries exactly the recognized
\* fields of obj, and at most one location, which then is derived from the
\* two coordinates of obj
OnePacketOf(x, obj) ==
  /\ Len(x) \in {1, 2}
  /\ x[1].k = "telemetry"
  /\ DOMAIN x[1].pkt = FieldsOf(obj)
  /\ \A k \in FieldsOf(obj) : x[1].pkt[k] = FieldValue(obj, k)
  /\ Len(x) = 2 => /\ x[2].k = "location"
                   /\ Locatable(obj)
                   /\ float_of(FieldValue(obj, "latitude")).v = x[2].lat
                   /\ float_of(FieldValue(obj, "longitude")).v = x[2].lon

EmptyAsm == [json_buf |-> "", json_depth |-> 0, json_in_string |-> FALSE,
             json_escape |-> FALSE]

\* the text of lines i..j of obs.seen, put together
RECURSIVE Joined(_, _)
Joined(i, j) == IF i > j THEN "" ELSE obs.seen[i].text \o Joined(i + 1, j)

-----------------------------------------------------------------------------
(* C1 *)

\* the events x of a line whose match is m
C1_Line(m, x) ==
  /\ Len(x) = 2
  /\ x[1].k = "location"
  /\ x[1].lat = float_of_group(m.g1) /\ x[1].lon = float_of_group(m.g2)
  /\ x[2].k = "telemetry"
  /\ DOMAIN x[2].pkt = {"latitude", "longitude"}
  /\ x[2].pkt["latitude"] = NumV(x[1].lat) /\ x[2].pkt["longitude"] = NumV(x[1].lon)

\* C1: a line that matches one of the coordinate patterns (Location:, the
\* pushpin form, the Lat:/Lon: pair) yields exactly one location event and
\* exactly one telemetry event whose only fields are latitude and longitude,
\* both with the numbers of the match acted on, whichever pattern matched
\* and however many matches the line holds.
C1_PatternLine ==
  \A i \in JustProcessed :
    \A m \in {PatternMatch(obs.seen[i].text)} :
      m.ok => obs.seen[i].matched /\ \A x \in {Extracted(i)} : C1_Line(m, x)

\* a line with the pushpin form and a second match has given 3 and 4.25
C1_Witness ==
  \E i \in 1..Len(obs.seen) :
    /\ obs.seen[i].text = "@ LOCATION:+3 4.25 Location: 9, 9"
    /\ Len(Extracted(i)) = 2
    /\ Extracted(i)[1] = [k |-> "location", rd |-> obs.seen[i].rd, ln |-> i,
                          lat |-> [m |-> 3, e |-> 0], lon |-> [m |-> 425, e |-> 2]]

-----------------------------------------------------------------------------
(* C2 *)

\* line i is a well-formed JSON object, parsed as r, that matches no
\* coordinate pattern
ObjectLine(i, r) == IsObject(r) /\ ~PatternMatch(obs.seen[i].text).ok

\* C2, as stated: a well-formed JSON object on one line that matches no
\* coordinate pattern yields exactly one telemetry event, with exactly the
\* recognized fields of the object, and no location unless both coordinates
\* are present, in every state of the assembler.
C2_AlwaysOnePacket ==
  \A i \in JustProcessed :
    \A r \in {json_loads(obs.seen[i].text)} :
      ObjectLine(i, r) => \A x \in {Extracted(i)} : OnePacketOf(x, r.val.v)

\* the events x of the object obj on one line
C2_Line(x, obj) ==
  IF FieldsOf(obj) = {} THEN x = <<>>
  ELSE OnePacketOf(x, obj) /\ (Len(x) = 2 <=> Locatable(obj))

\* C2, amended: a well-formed JSON object on one line that matches no
\* coordinate pattern yields, when it has at least one recognized field,
\* exactly one telemetry event with exactly its recognized fields, and a
\* location event only if both coordinates are present (then exactly when
\* both convert to numbers); when it has no recognized field it yields no
\* event.  Either way in every state of the assembler, which the line
\* leaves as it was.
C2_ObjectLine ==
  \A i \in JustProcessed :
    \A r \in {json_loads(obs.seen[i].text)} :
      ObjectLine(i, r) =>
        /\ obs.seen[i].post = obs.seen[i].pre
        /\ \A x \in {Extracted(i)} : C2_Line(x, r.val.v)

\* an object with two recognized fields arrived on one line while a
\* multi-line object was in progress, and gave its packet
C2_Witness ==
  \E i \in 1..Len(obs.seen) :
    /\ obs.seen[i].pre.json_depth > 0
    /\ obs.seen[i].text = "{\"altitude\": 12.5, \"mode\": 2}"
    /\ Len(Extracted(i)) = 1
    /\ Extracted(i)[1].pkt = ("altitude" :> NumV([m |-> 125, e |-> 1]))
                               @@ ("mode" :> NumV([m |-> 2, e |-> 0]))

-----------------------------------------------------------------------------
(* C6 *)

\* t is text between braces that does not parse
Malformed(t) == startswith(t, "{") /\ endswith(t, "}") /\ ~json_loads(t).ok

\* line i is such a text by itself
MalformedLine(i) ==
  WholeObjectLine(obs.seen[i].text) /\ ~json_loads(obs.seen[i].text).ok

\* line i brings the depth back to zero, a being the assembler after its
\* characters, and the boundary is such a text
MalformedBoundary(i, a) ==
  ~WholeObjectLine(obs.seen[i].text) /\ a.json_depth = 0 /\ Malformed(strip(a.json_buf))

\* line i is one or the other
MalformedAt(i) ==
  \/ MalformedLine(i)
  \/ \E a \in {Scanned(obs.seen[i].pre, obs.seen[i].text)} : MalformedBoundary(i, a)

\* line i gave its raw_line and nothing else
OnlyRepublished(i) ==
  /\ Extracted(i) = <<>>
  /\ RawLines(i) = <<[k |-> "raw_line", rd |-> obs.seen[i].rd, ln |-> i,
                      text |-> obs.seen[i].text]>>

\* C6, as stated: a line, or a completed multi-line boundary, whose text
\* between the outer braces is malformed JSON yields no telemetry and no
\* location, and no fatal error; the line is still republished as raw_line.
C6_MalformedSilent ==
  /\ LoopLeftOnRequest
  /\ \A i \in JustProcessed : MalformedAt(i) => OnlyRepublished(i)

\* C6, amended: such a line yields no telemetry and no location provided it
\* matches no coordinate pattern (a line that does is extracted by the
\* pattern, whatever its braces hold).  In either case it is republished as
\* raw_line once, no diagnostic is emitted for it, and the loop goes on to
\* its next iteration.
C6_MalformedNoPattern ==
  /\ LoopLeftOnRequest
  /\ \A i \in JustProcessed :
       MalformedAt(i) =>
         /\ ~PatternMatch(obs.seen[i].text).ok => OnlyRepublished(i)
         /\ Len(RawLines(i)) = 1 /\ RawLines(i)[1].text = obs.seen[i].text

\* a multi-line boundary closed on malformed text and gave nothing but its
\* raw_line; the worker is back at the head of the loop
C6_Witness ==
  \E i \in 2..Len(obs.seen) :
    /\ obs.seen[i - 1].text = "{\"mode\":" /\ obs.seen[i].text = "1,}"
    /\ ~MalformedLine(i) /\ MalformedAt(i)
    /\ OnlyRepublished(i)
    /\ obs.seen[i].post = EmptyAsm
    /\ w.pc = "check"

-----------------------------------------------------------------------------
(* C3 *)

\* the object has both coordinates, as numbers
HasCoordinates(obj) ==
  /\ {"latitude", "longitude"} \subseteq FieldsOf(obj)
  /\ FieldValue(obj, "latitude").t = "num"
  /\ FieldValue(obj, "longitude").t = "num"

\* lines i and i + 1, parsed together as r, are an object with both
\* coordinates that the assembler, empty before, closes on the second
TwoLineObject(i, r) ==
  /\ obs.seen[i].pre = EmptyAsm
  /\ obs.seen[i].post.json_depth > 0
  /\ obs.seen[i + 1].post.json_depth = 0
  /\ IsObject(r)
  /\ HasCoordinates(r.val.v)

\* the events x of the second line
C3_Second(x, obj) ==
  /\ OnePacketOf(x, obj)
  /\ Len(x) = 2
  /\ x[1].pkt["latitude"] = NumV(x[2].lat)
  /\ x[1].pkt["longitude"] = NumV(x[2].lon)

\* C3: starting from an empty assembler, when a well-formed JSON object
\* with both coordinates arrives as two consecutive lines and the brace
\* depth returns to zero only on the second, nothing is extracted from the
\* first line, and the second yields exactly one telemetry packet, with
\* latitude and longitude, and one location event with the same numbers.
C3_TwoLines ==
  \A i \in {j \in 1..(Len(obs.seen) - 1) : j + 1 \in JustProcessed} :
    (obs.seen[i].pre = EmptyAsm /\ obs.seen[i].post.json_depth > 0
       /\ obs.seen[i + 1].post.json_depth = 0) =>
      \A r \in {json_loads(Joined(i, i + 1))} :
        TwoLineObject(i, r) =>
          /\ Extracted(i) = <<>>
          /\ \A x \in {Extracted(i + 1)} : C3_Second(x, r.val.v)
          /\ obs.seen[i + 1].post = EmptyAsm

\* the object of coordinates 10.0 and 2 was cut inside its second member
C3_Witness ==
  /\ Len(obs.seen) = 2
  /\ obs.seen[1].text = "{\"lat\":10.0,\"lon\":" /\ obs.seen[2].text = "2}"
  /\ TwoLineObject(1, json_loads(Joined(1, 2)))
  /\ Extracted(1) = <<>>
  /\ Len(Extracted(2)) = 2
  /\ Extracted(2)[2].lat = [m |-> 10, e |-> 0] /\ Extracted(2)[2].lon = [m |-> 2, e |-> 0]

-----------------------------------------------------------------------------
(* C4 *)

\* the n lines processed so far, parsed together as r, are one well-formed
\* object, with a recognized field, in two pieces or more
WholeObjectArrived(n, r) ==
  /\ n >= 2
  /\ obs.seen[1].pre = EmptyAsm
  /\ IsObject(r)
  /\ FieldsOf(r.val.v) /= {}

\* piece i gave no event and went whole into the assembly buffer
Buffered(i) ==
  /\ Extracted(i) = <<>>
  /\ obs.seen[i].post.json_buf = obs.seen[i].pre.json_buf \o obs.seen[i].text

\* C4: a well-formed top-level object may be cut into any number of
\* consecutive lines at any positions, pieces that start with '{' and end
\* with '}' included: every character of every piece is appended to the
\* assembly buffer, no telemetry is emitted before the last piece, and
\* exactly one telemetry event, for the whole object, after it.
C4_AnySplit ==
  \A n \in {Len(obs.seen)} :
    \A r \in {json_loads(Joined(1, n))} :
      WholeObjectArrived(n, r) =>
        /\ \A i \in 1..(n - 1) : Buffered(i)
        /\ \A x \in {Extracted(n)} : OnePacketOf(x, r.val.v)

-----------------------------------------------------------------------------
(* C5 *)

\* the n lines processed so far are, from an empty assembler, an object
\* with a brace or an escaped quote inside a string
StringWithBraces(n) ==
  n >= 1 /\ obs.seen[1].pre = EmptyAsm /\ Joined(1, n) \in {BraceObj, EscapeObj}

\* C5: braces inside a quoted string never change the assembler's depth
\* and an escaped quote never ends the string: an object whose strings
\* hold '{', '}' or '\"' is assembled and emitted as a single object, also
\* when it is cut inside or around that string.
C5_BracesInStrings ==
  \A n \in {Len(obs.seen)} :
    StringWithBraces(n) =>
      /\ \A i \in 1..(n - 1) : Extracted(i) = <<>>
      /\ \A x \in {Extracted(n)} : OnePacketOf(x, json_loads(Joined(1, n)).val.v)
      /\ obs.seen[n].post = EmptyAsm

-----------------------------------------------------------------------------
(* C11 *)

\* the texts of the lines taken from read r, in the order they were processed
RECURSIVE LinesOfRead(_, _)
LinesOfRead(r, k) ==
  IF k > Len(obs.seen) THEN ""
  ELSE (IF obs.seen[k].rd = r THEN obs.seen[k].text \o "\n" ELSE "") \o LinesOfRead(r, k + 1)

\* C11: events reach the consumer in the order in which the lines were read
\* and processed.  The lines are processed in the order of the reads and,
\* within a chunk, of their place in it; the events are emitted line after
\* line, a line starting on the assembler exactly as the line before left
\* it (no two lines are extracted at once); and the consumer handles the
\* events in the order of their emission, so that every event of a line is
\* handled before every event of a later line.
C11_InOrder ==
  /\ \A a \in 1..Len(out) : \A b \in (a + 1)..Len(out) :
       /\ out[a].rd <= out[b].rd
       /\ (out[a].ln > 0 /\ out[b].ln > 0) => out[a].ln <= out[b].ln
  /\ \A k \in 1..Len(obs.seen) :
       /\ k > 1 => /\ obs.seen[k - 1].rd <= obs.seen[k].rd
                   /\ obs.seen[k].pre = obs.seen[k - 1].post
       /\ \E a \in 1..Len(out) : out[a].ln = k /\ out[a].rd = obs.seen[k].rd
  /\ \A r \in 1..Len(obs.reads) :
       obs.reads[r].k = "data" => LinesOfRead(r, 1) = obs.reads[r].raw
  /\ \A a \in 1..Len(gui.got) : \A b \in (a + 1)..Len(gui.got) :
       /\ gui.got[a] < gui.got[b]
       /\ \A c \in 1..gui.got[b] : \E d \in 1..b : gui.got[d] = c

\* the consumer has handled the events of the first two lines of a chunk
\* of three, the events of the third still being queued
C11_Witness ==
  /\ ~w.lines /\ Len(obs.seen) >= 3 /\ obs.seen[3].rd = obs.seen[1].rd
  /\ Queued /= {} /\ \A i \in Queued : out[i].ln = 3
  /\ \E a \in 1..Len(gui.got) : out[gui.got[a]].k = "telemetry" /\ out[gui.got[a]].ln = 2

-----------------------------------------------------------------------------
(* C12 *)

\* the texts of the events of read r that republish a line: its raw_line
\* events, the diagnostics apart
Republished(r) ==
  [i \in 1..Len(SelectSeq(DuringRead(r), LAMBDA e : e.k = "raw_line" /\ ~IsDiagnostic(e))) |->
     SelectSeq(DuringRead(r), LAMBDA e : e.k = "raw_line" /\ ~IsDiagnostic(e))[i].text]

\* the lines the bytes raw decode to: in line mode the text without the
\* line end, if any is left; in chunk mode the non-empty pieces between the
\* line feeds, carriage returns removed
DecodedLines(raw) ==
  IF w.lines
  THEN IF rstrip_crlf(decode_replace(raw)) = "" THEN <<>>
       ELSE <<rstrip_crlf(decode_replace(raw))>>
  ELSE split_lines(remove_cr(decode_ignore(raw)), "", <<>>)

\* C12: every line decoded from the device's bytes is republished as it is,
\* as exactly one raw_line event, in line mode and in chunk mode, whether a
\* pattern matched it, an object was parsed from it, or nothing was
\* extracted from it.
C12_Republished ==
  /\ \A r \in JustRead :
       obs.reads[r].k = "data" => Republished(r) = DecodedLines(obs.reads[r].raw)
  /\ \A i \in JustProcessed :
       \A rl \in {SelectSeq(RawLines(i), LAMBDA e : ~IsDiagnostic(e))} :
         Len(rl) = 1 /\ rl[1].text = obs.seen[i].text

\* lines were republished from which a location was extracted, and lines
\* from which nothing was, one of them while the write to the log failed
C12_Witness ==
  /\ Len(obs.seen) >= 2
  /\ \E i \in 1..Len(obs.seen) : obs.seen[i].matched /\ Len(RawLines(i)) = 2
  /\ \E i \in 1..Len(obs.seen) : ~obs.seen[i].matched /\ Extracted(i) = <<>>

-----------------------------------------------------------------------------
(* C13 *)

\* the data of the operations of kind op among f[k..], concatenated
RECURSIVE DataOf(_, _, _)
DataOf(f, op, k) ==
  IF k > Len(f) THEN ""
  ELSE (IF f[k].op = op /\ f[k].ok THEN f[k].data ELSE "") \o DataOf(f, op, k + 1)

\* the inputs received in the reads k.., concatenated; with skip, those
\* apart during which the write to the sink skip raised
RECURSIVE Received(_, _)
Received(k, skip) ==
  IF k > Len(obs.reads) THEN ""
  ELSE (IF \E n \in 1..Len(files[skip]) :
             files[skip][n].rd = k /\ files[skip][n].op = "write" /\ ~files[skip][n].ok
        THEN "" ELSE obs.reads[k].raw) \o Received(k + 1, skip)

\* the writes issued to sink s, one per input, in the order of the reads
WritesOf(s) == SelectSeq(files[s], LAMBDA o : o.op = "write")

\* C13: with the binary capture opened, the bytes written to it over the
\* run, in the order of the writes, are the inputs received from the
\* device, in the order of the reads, byte for byte: one write per
\* non-empty input, of the input itself, whether or not it decodes to a
\* line and whatever extraction does with it.  A write that raises is the
\* only thing that keeps an input out of the capture.
C13_BinRoundTrip ==
  IF \E n \in 1..Len(files["bin"]) : files["bin"][n].op = "open"
  THEN /\ DataOf(files["bin"], "write", 1) = Received(1, "bin")
       /\ \A n \in 1..Len(WritesOf("bin")) :
            /\ WritesOf("bin")[n].rd <= Len(obs.reads)
            /\ WritesOf("bin")[n].data = obs.reads[WritesOf("bin")[n].rd].raw
            /\ n > 1 => WritesOf("bin")[n - 1].rd < WritesOf("bin")[n].rd
       /\ \A r \in 1..Len(obs.reads) :
            obs.reads[r].k = "data" => \E n \in 1..Len(WritesOf("bin")) : WritesOf("bin")[n].rd = r
  ELSE WritesOf("bin") = <<>>

\* two inputs were captured, one of them an empty line
C13_Witness ==
  /\ Len(WritesOf("bin")) >= 2
  /\ \E n \in 1..Len(WritesOf("bin")) : rstrip_crlf(WritesOf("bin")[n].data) = ""
  /\ DataOf(files["bin"], "write", 1) = Received(1, "bin")
  /\ Len(DataOf(files["bin"], "write", 1)) > 4

-----------------------------------------------------------------------------
(* C14 *)

\* the dump lines of the writes f[k..] issued to the hex dump, in order
RECURSIVE DumpLines(_, _)
DumpLines(f, k) ==
  IF k > Len(f) THEN <<>>
  ELSE (IF f[k].op = "write" THEN f[k].data ELSE <<>>) \o DumpLines(f, k + 1)

\* the number of bytes received in the reads k..
RECURSIVE BytesReceived(_)
BytesReceived(k) ==
  IF k > Len(obs.reads) THEN 0 ELSE Len(obs.reads[k].raw) + BytesReceived(k + 1)

\* the dump lines d are laid end to end from address 0 up to address a,
\* none longer than the width
Continuous(d, a) ==
  /\ \A n \in 1..Len(d) :
       /\ Len(d[n].bytes) >= 1 /\ Len(d[n].bytes) <= w.hexwidth
       /\ d[n].addr = (IF n = 1 THEN 0 ELSE d[n - 1].addr + Len(d[n - 1].bytes))
  /\ a = (IF d = <<>> THEN 0 ELSE d[Len(d)].addr + Len(d[Len(d)].bytes))

\* C14: with the hex dump opened, the running address is the number of
\* bytes of all the inputs received so far: it is not reset from one input
\* to the next; every dump line covers at most hexwidth bytes and starts
\* where the line before it ended, also from the last line of an input to
\* the first line of the next.
C14_HexAddress ==
  IF \E n \in 1..Len(files["hex"]) : files["hex"][n].op = "open"
  THEN /\ w.hex_addr = BytesReceived(1)
       /\ \A d \in {DumpLines(files["hex"], 1)} : Continuous(d, w.hex_addr)
  ELSE w.hex_addr = 0 /\ WritesOf("hex") = <<>>

\* a second input was dumped from an address that is no multiple of the
\* width, the first having taken more than one dump line
C14_Witness ==
  /\ Len(WritesOf("hex")) >= 2
  /\ Len(WritesOf("hex")[1].data) >= 2
  /\ WritesOf("hex")[2].data[1].addr % w.hexwidth /= 0
  /\ w.hex_addr > WritesOf("hex")[2].data[1].addr

-----------------------------------------------------------------------------
(* C15 *)

\* sink s was opened
OpenedSink(s) == \E n \in 1..Len(files[s]) : files[s][n].op = "open"

\* a write to sink s raised during read r
WriteFailed(s, r) ==
  \E n \in 1..Len(files[s]) : files[s][n].rd = r /\ files[s][n].op = "write" /\ ~files[s][n].ok

\* the writes to sink s that went through during read r
Written(s, r) == SelectSeq(files[s], LAMBDA o : o.rd = r /\ o.op = "write" /\ o.ok)

\* the lines of read r
LinesIn(r) == {i \in 1..Len(obs.seen) : obs.seen[i].rd = r}

\* what was extracted from line i is what its text calls for: the pair of a
\* pattern match, or the packet of an object on one line
ExtractedAsDue(i) ==
  \A m \in {PatternMatch(obs.seen[i].text)} : \A x \in {Extracted(i)} :
    IF m.ok
    THEN Len(x) = 2 /\ x[1].k = "location" /\ x[2].k = "telemetry"
         /\ x[1].lat = float_of_group(m.g1) /\ x[1].lon = float_of_group(m.g2)
    ELSE \A r \in {json_loads(obs.seen[i].text)} :
           (IsObject(r) /\ FieldsOf(r.val.v) /= {}) => OnePacketOf(x, r.val.v)

\* C15: the three sinks are independent.  When the write to one sink raises
\* for an input, the input is still written to every other sink that is
\* open (the bytes to the binary capture, the dump lines to the hex dump,
\* each line to the text log), its lines are still republished and what
\* they hold is still extracted and emitted, and the loop goes on to the
\* next read.
C15_Independent ==
  /\ LoopLeftOnRequest
  /\ \A r \in JustRead : \A s \in Sinks :
       WriteFailed(s, r) =>
         /\ \A t \in Sinks \ {s} :
              OpenedSink(t) =>
                CASE t = "bin" -> /\ Len(Written(t, r)) = 1
                                  /\ Written(t, r)[1].data = obs.reads[r].raw
                  [] t = "hex" -> /\ Len(Written(t, r)) = 1
                                  /\ Len(Written(t, r)[1].data) >= 1
                  [] t = "log" -> /\ Len(Written(t, r)) = Len(DecodedLines(obs.reads[r].raw))
                                  /\ \A n \in 1..Len(Written(t, r)) :
                                       Written(t, r)[n].data = DecodedLines(obs.reads[r].raw)[n]
         /\ Republished(r) = DecodedLines(obs.reads[r].raw)
         /\ \A i \in LinesIn(r) : ExtractedAsDue(i)

\* the write to the binary capture raised for an input that held a
\* location; the location was emitted, the other two sinks were written,
\* and a further read was answered
C15_Witness ==
  /\ Len(obs.reads) = 2 /\ obs.reads[2].k = "data"
  /\ WriteFailed("bin", 1)
  /\ OpenedSink("hex") /\ OpenedSink("log")
  /\ \E i \in LinesIn(1) : obs.seen[i].matched /\ Len(Extracted(i)) = 2

-----------------------------------------------------------------------------
(* C16 *)

\* C16: no failure of a sink aborts ingestion.  Whatever fails on a sink
\* (its open, a write to it, the write of the LOG START marker included, or
\* a flush), the worker still opens the device and enters the read loop
\* when the device can be opened, and leaves the loop only on a stop
\* request or a read error; a sink whose open failed stays absent.
C16_NeverAborts ==
  /\ (env.ser_ok /\ w.pc /= "start") =>
       /\ w.ser /= "none"
       /\ \E i \in 1..Len(out) : out[i].k = "raw_line" /\ out[i].text = "[info] Serial started"
  /\ w.ser /= "none" => LoopLeftOnRequest
  /\ \A s \in env.open_bad : w.pc /= "start" => FpOf([w |-> w], s) = "none" /\ files[s] = <<>>

-----------------------------------------------------------------------------
(* C17 *)

\* a diagnostic was emitted in the step numbered r (a read, 0 for the
\* opening, the number after the last read for the teardown)
ReportedIn(r) == \E i \in 1..Len(out) : IsDiagnostic(out[i]) /\ out[i].rd = r

\* C17: every failure of a sink is reported.  Each open of a sink that
\* fails, each write to a sink that raises and each flush of a sink that
\* raises is followed, in the same step of the worker, by a raw_line event
\* with the "[Serial error]" prefix.
C17_AllReported ==
  /\ \A s \in env.open_bad :
       w.pc /= "start" =>
         \E i \in 1..Len(out) :
            out[i].k = "raw_line" /\ out[i].text = "[Serial error] failed to open " \o s
  /\ \A s \in Sinks : \A n \in 1..Len(files[s]) :
       ~files[s][n].ok => ReportedIn(files[s][n].rd)

-----------------------------------------------------------------------------
(* C18 *)

\* the text JSON extraction parses at line i, "" if it parses none: the
\* line itself when it is an object on one line, else the assembled text
\* when the line brings the depth back to zero
ParsedText(i, a) ==
  IF obs.seen[i].matched THEN ""
  ELSE IF WholeObjectLine(obs.seen[i].text) THEN obs.seen[i].text
  ELSE IF a.json_depth = 0 /\ startswith(strip(a.json_buf), "{")
            /\ endswith(strip(a.json_buf), "}")
       THEN strip(a.json_buf) ELSE ""

\* the events x of a line at which the object obj was parsed, obj having a
\* recognized field: the telemetry, and the location exactly when both
\* coordinates are there and convert
PacketThenLocation(x, obj) ==
  /\ OnePacketOf(x, obj)
  /\ Len(x) = 2 <=> Locatable(obj)

\* C18: whenever JSON extraction yields a packet that is not empty, on one
\* line or at the end of a multi-line object, its telemetry event is
\* emitted; a location event is emitted with it if and only if the packet
\* has both coordinates and both convert to numbers; a coordinate that
\* does not convert takes nothing from the telemetry event and does not
\* stop the worker.
C18_PacketAlways ==
  /\ LoopLeftOnRequest
  /\ \A i \in JustProcessed :
       \A a \in {Scanned(obs.seen[i].pre, obs.seen[i].text)} :
         \A r \in {json_loads(ParsedText(i, a))} :
           (IsObject(r) /\ FieldsOf(r.val.v) /= {}) =>
              \A x \in {Extracted(i)} : PacketThenLocation(x, r.val.v)

\* an object whose latitude is not a number gave its telemetry event, with
\* both coordinates in it, and no location; a later line was processed
C18_Witness ==
  /\ Len(obs.seen) = 2
  /\ \A x \in {Extracted(1)} :
       /\ Len(x) = 1 /\ x[1].k = "telemetry"
       /\ {"latitude", "longitude"} \subseteq DOMAIN x[1].pkt
       /\ x[1].pkt["latitude"] = StrV("x")
  /\ Extracted(2) /= <<>>

-----------------------------------------------------------------------------
(* C19 *)

\* C19: every telemetry packet emitted has recognized field names only as
\* its keys.  The fields of the source object that are not recognized are
\* dropped, lat and lon appear as latitude and longitude only, and an
\* object without any recognized field gives no telemetry and no location.
C19_RecognizedOnly ==
  /\ \A n \in 1..Len(out) :
       out[n].k = "telemetry" =>
         /\ DOMAIN out[n].pkt /= {}
         /\ DOMAIN out[n].pkt \subseteq Recognized
  /\ \A i \in JustProcessed :
       \A a \in {Scanned(obs.seen[i].pre, obs.seen[i].text)} :
         \A r \in {json_loads(ParsedText(i, a))} :
           IsObject(r) =>
             \A x \in {Extracted(i)} :
               IF (DOMAIN r.val.v) \cap (Recognized \cup {"lat", "lon"}) = {}
               THEN x = <<>>
               ELSE /\ x /= <<>> /\ x[1].k = "telemetry"
                    /\ \A k \in DOMAIN x[1].pkt :
                         \/ k \in DOMAIN r.val.v /\ (k = "latitude" => "lat" \notin DOMAIN r.val.v)
                                                 /\ (k = "longitude" => "lon" \notin DOMAIN r.val.v)
                                                 /\ x[1].pkt[k] = r.val.v[k]
                         \/ k = "latitude" /\ "lat" \in DOMAIN r.val.v
                                           /\ x[1].pkt[k] = r.val.v["lat"]
                         \/ k = "longitude" /\ "lon" \in DOMAIN r.val.v
                                            /\ x[1].pkt[k] = r.val.v["lon"]

\* an object with lat, lon and a field that is not recognized gave a packet
\* with latitude and longitude only; an object without a recognized field
\* gave nothing
C19_Witness ==
  /\ Len(obs.seen) = 2
  /\ IsObject(json_loads(obs.seen[1].text))
  /\ "foo" \in DOMAIN json_loads(obs.seen[1].text).val.v
  /\ "lat" \in DOMAIN json_loads(obs.seen[1].text).val.v
  /\ Extracted(1) /= <<>> /\ DOMAIN Extracted(1)[1].pkt = {"latitude", "longitude"}
  /\ json_loads(obs.seen[2].text).ok /\ Extracted(2) = <<>>

-----------------------------------------------------------------------------
(* C20 *)

\* C20: the assembler between lines.  Whenever the brace depth is zero the
\* assembly buffer is empty and the in-string and escape flags are false.
\* A line either leaves the buffer as it was, or appends its text to it, or
\* clears it; it clears it together with the two flags, and only when the
\* depth is zero.
C20_AssemblerInvariant ==
  /\ w.json_depth = 0 =>
       w.json_buf = "" /\ ~w.json_in_string /\ ~w.json_escape
  /\ \A i \in JustProcessed :
       \A pre \in {obs.seen[i].pre} : \A post \in {obs.seen[i].post} :
         \/ post = pre
         \/ /\ post.json_buf = pre.json_buf \o obs.seen[i].text
            /\ post.json_depth /= 0
         \/ /\ post.json_buf = "" /\ post.json_depth = 0
            /\ ~post.json_in_string /\ ~post.json_escape

\* a line taken by the streaming path ended inside a string with the depth
\* at zero: the buffer was cleared and the flag reset
C20_Witness ==
  \E i \in 1..Len(obs.seen) :
    /\ ~obs.seen[i].matched /\ ~WholeObjectLine(obs.seen[i].text)
    /\ Scanned(obs.seen[i].pre, obs.seen[i].text).json_in_string
    /\ Scanned(obs.seen[i].pre, obs.seen[i].text).json_depth = 0
    /\ obs.seen[i].post = EmptyAsm

-----------------------------------------------------------------------------
(* C21 *)

\* all the device has sent is handled, and the worker is at the head of the
\* loop
StreamHandled == w.pc = "check" /\ dev = <<>> /\ obs.reads /= <<>>

\* the telemetry events so far
Telemetry == SelectSeq(out, LAMBDA e : e.k = "telemetry")

\* the positions at which t divides into two well-formed objects that each
\* have a recognized field
TwoObjectsAt(t) ==
  {k \in 1..(Len(t) - 1) :
     \A a \in {json_loads(SubSeq(t, 1, k))} :
       IsObject(a) /\ FieldsOf(a.val.v) /= {} /\
         \A b \in {json_loads(SubSeq(t, k + 1, Len(t)))} :
           IsObject(b) /\ FieldsOf(b.val.v) /= {}}

\* C21, as stated: lines that together hold two well-formed top-level
\* objects one after the other, on one line or with the end of the first and
\* the start of the second on one line, each with a recognized field and
\* none matching a coordinate pattern, give one telemetry event per object:
\* two events, the first with the fields of the first object, the second
\* with those of the second.
C21_OnePerObject ==
  StreamHandled /\ (\A i \in 1..Len(obs.seen) : ~obs.seen[i].matched) =>
    \A t \in {Joined(1, Len(obs.seen))} :
      \A k \in TwoObjectsAt(t) :
        \A x \in {Telemetry} :
          /\ Len(x) = 2
          /\ OnePacketOf(<<x[1]>>, json_loads(SubSeq(t, 1, k)).val.v)
          /\ OnePacketOf(<<x[2]>>, json_loads(SubSeq(t, k + 1, Len(t))).val.v)

-----------------------------------------------------------------------------
(* C22 *)

\* the assembler after a line of text t is fed to it in state pre, a being
\* pre with the characters of t scanned in
AfterFeeding(pre, t, a) ==
  IF WholeObjectLine(t) THEN pre
  ELSE IF a.json_depth = 0 /\ a.json_buf /= "" THEN EmptyAsm
  ELSE a

\* C22: extraction stops at the first success.  A line that a coordinate
\* pattern matches gives the two events of the match and is not fed to the
\* JSON assembler: buffer, depth and string flags are after the line what
\* they were before it, also while a multi-line object is in progress.  A
\* line that no pattern matches is fed to the assembler: the assembler is
\* left as feeding the line leaves it, and an object that ends on the line
\* and has a recognized field gives its events.
C22_FirstSuccess ==
  \A i \in JustProcessed :
    \A m \in {PatternMatch(obs.seen[i].text)} :
      /\ obs.seen[i].matched <=> m.ok
      /\ m.ok => /\ obs.seen[i].post = obs.seen[i].pre
                 /\ \A x \in {Extracted(i)} : C1_Line(m, x)
      /\ ~m.ok =>
           \A a \in {Scanned(obs.seen[i].pre, obs.seen[i].text)} :
             /\ obs.seen[i].post = AfterFeeding(obs.seen[i].pre, obs.seen[i].text, a)
             /\ \A r \in {json_loads(ParsedText(i, a))} :
                  (IsObject(r) /\ FieldsOf(r.val.v) /= {}) => Extracted(i) /= <<>>

\* a line with coordinates arrived while a multi-line object was in
\* progress: it gave its two events and left the assembler as it was
C22_Witness ==
  \E i \in 2..Len(obs.seen) :
    /\ obs.seen[i].matched
    /\ obs.seen[i].pre.json_depth = 1 /\ obs.seen[i].pre.json_buf = "{\"mode\":"
    /\ obs.seen[i].post = obs.seen[i].pre
    /\ Len(Extracted(i)) = 2

-----------------------------------------------------------------------------
(* C23 *)

\* what a worker is constructed with
Config(x) == [lines |-> x.lines, chunk |-> x.chunk, logfile |-> x.logfile,
              binfile |-> x.binfile, hexdump_path |-> x.hexdump_path,
              hexwidth |-> x.hexwidth]

\* worker x has returned from run() and holds neither the device nor a sink
Terminated(x) ==
  /\ x.pc = "done" /\ x.ser /= "open"
  /\ x.log_fp = "none" /\ x.bin_fp = "none" /\ x.hex_fp = "none"

\* C23: changing the connection parameters never mutates a live worker.
\* While start_serial_location waits, the current worker has been asked to
\* stop; every worker that was replaced had been asked to stop and had
\* terminated, holding neither the device nor a sink file, when its
\* successor was constructed, so two workers never run at once; and no step
\* taken while a worker has not terminated changes its configuration.
C23_NeverLive ==
  /\ [](/\ gui.pc = "wait" => w.stop
        /\ \A i \in 1..Len(gui.replaced) :
             gui.replaced[i].stop /\ Terminated(gui.replaced[i]))
  /\ [][w.pc /= "done" => Config(w') = Config(w)]_vars

\* a worker that had opened the device was replaced by one with another
\* configuration, which is reading
C23_Witness ==
  /\ gui.replaced /= <<>>
  /\ gui.replaced[1].ser = "closed"
  /\ Config(w) /= Config(gui.replaced[1])
  /\ w.pc = "read"

-----------------------------------------------------------------------------
(* C24 *)

\* what the worker has written to the text log, in order, whether or not
\* the write raised
LogWrites ==
  LET f == SelectSeq(files["log"], LAMBDA o : o.op = "write")
  IN  [n \in 1..Len(f) |-> f[n].data]

\* the decoded device lines republished so far, in order: the raw_line
\* events emitted while a line was handled, the diagnostics aside
DeviceLines ==
  LET e == SelectSeq(out, LAMBDA x : x.k = "raw_line" /\ x.ln /= 0 /\ ~IsDiagnostic(x))
  IN  [n \in 1..Len(e) |-> e[n].text]

LogOpened == \E n \in 1..Len(files["log"]) : files["log"][n].op = "open"

\* C24: when the text log is opened, what the worker writes to it in one
\* run is the LOG START marker, then one entry per decoded device line, the
\* same lines in the same order as the raw_line events of the device lines
\* (diagnostics and notices are not logged), then the LOG END marker as the
\* last write, on every exit path: a stop request, a read that raises, an
\* exception in the loop body, a failure to open the device.  Until the
\* worker ends the log is the marker and the lines so far.  A write that
\* raises leaves its entry out of the file and changes nothing else.  When
\* the log is not opened nothing is written to it.
C24_LogContent ==
  \A l \in {LogWrites} :
    IF ~LogOpened THEN l = <<>>
    ELSE IF w.pc = "done" THEN l = <<"=== LOG START ===">> \o DeviceLines \o <<"=== LOG END ===">>
    ELSE l = <<"=== LOG START ===">> \o DeviceLines

\* a worker that logged two lines ended on an exception in the loop body:
\* the log is the start marker, the two lines, the end marker
C24_Witness ==
  /\ w.pc = "done"
  /\ obs.reads /= <<>> /\ obs.reads[Len(obs.reads)].k = "crash"
  /\ LogWrites = <<"=== LOG START ===", "Location: 1.5, -2", "{\"mode\": 1}", "=== LOG END ===">>

-----------------------------------------------------------------------------
(* C25 *)

\* all the events emitted while line i was handled
EventsOf(i) == SelectSeq(out, LAMBDA e : e.ln = i)

\* the kinds of the events x
Kinds(x) == [n \in 1..Len(x) |-> x[n].k]

\* C25: the events of one line.  The raw_line event, with the text of the
\* line, comes first.  After it a line that a pattern matches has a
\* location and then a telemetry event with the two coordinates only; a
\* line from which a JSON object is extracted has a telemetry event and
\* then at most one location; any other line has nothing.  No line has
\* both the events of a pattern and the events of an object.
C25_OrderInLine ==
  \A i \in JustProcessed :
    \A x \in {EventsOf(i)} :
      /\ x /= <<>> /\ x[1].k = "raw_line" /\ x[1].text = obs.seen[i].text
      /\ IF obs.seen[i].matched
         THEN /\ Kinds(x) = <<"raw_line", "location", "telemetry">>
              /\ DOMAIN x[3].pkt = {"latitude", "longitude"}
              /\ x[3].pkt["latitude"] = NumV(x[2].lat) /\ x[3].pkt["longitude"] = NumV(x[2].lon)
         ELSE Kinds(x) \in {<<"raw_line">>, <<"raw_line", "telemetry">>,
                            <<"raw_line", "telemetry", "location">>}

\* a line with coordinates gave location, then telemetry; an object with
\* both coordinates gave telemetry, then location
C25_Witness ==
  /\ Len(obs.seen) = 2
  /\ obs.seen[1].matched
  /\ Kinds(EventsOf(1)) = <<"raw_line", "location", "telemetry">>
  /\ IsObject(json_loads(obs.seen[2].text))
  /\ Kinds(EventsOf(2)) = <<"raw_line", "telemetry", "location">>

-----------------------------------------------------------------------------
(* C26 *)

\* C26, as stated: the brace depth of the JSON assembler is never negative,
\* whatever lines have been fed to it.
C26_DepthNotNegative == w.json_depth >= 0

-----------------------------------------------------------------------------
(* C27 *)

\* C27, as stated: the assembler always resynchronises.  A well-formed
\* object with a recognized field that arrives in two lines, neither of
\* them matching a coordinate pattern, gives exactly one telemetry event,
\* at its second line, whatever garbage line came before it.
C27_Resynchronises ==
  \A j \in JustProcessed :
    j >= 2 /\ ~obs.seen[j - 1].matched /\ ~obs.seen[j].matched =>
      \A r \in {json_loads(Joined(j - 1, j))} :
        IsObject(r) /\ FieldsOf(r.val.v) /= {} =>
          /\ Extracted(j - 1) = <<>>
          /\ \A x \in {Extracted(j)} : Len(x) = 1 /\ OnePacketOf(x, r.val.v)

-----------------------------------------------------------------------------
(* C28 *)

\* C28, as stated: once the worker has ended, every sink that was opened
\* has been closed (the last operation on its file is the close) and its
\* handle dropped, also when the final flush of the sink or the write of the
\* LOG END marker raised.
C28_AllClosed ==
  w.pc = "done" =>
    /\ HandlesAbsent
    /\ \A s \in Sinks :
         \A f \in {files[s]} :
           (\E n \in 1..Len(f) : f[n].op = "open") => f[Len(f)].op = "close"

-----------------------------------------------------------------------------
(* C29 *)

\* the bytes the device has sent so far
RECURSIVE SentUpTo(_)
SentUpTo(n) == IF n = 0 THEN "" ELSE SentUpTo(n - 1) \o obs.reads[n].raw

\* the lines of the byte stream t, each with its line feed, as readline()
\* returns them
RECURSIVE ReadLines(_, _, _)
ReadLines(t, cur, acc) ==
  IF t = "" THEN (IF cur = "" THEN acc ELSE Append(acc, cur))
  ELSE IF Ch(t, 1) = "\n" THEN ReadLines(SubSeq(t, 2, Len(t)), "", Append(acc, cur \o "\n"))
  ELSE ReadLines(SubSeq(t, 2, Len(t)), cur \o Ch(t, 1), acc)

\* a worker in line mode, before its first read
FreshLineMode ==
  [w |-> NewWorker(TRUE, "none", "none", "none"), out |-> <<>>,
   files |-> [s \in Sinks |-> <<>>], seen |-> <<>>, rd |-> 0, ln |-> 0, badw |-> {}, badf |-> {}]

\* what line mode emits on the lines raws
RECURSIVE LineModeOn(_, _)
LineModeOn(S, raws) ==
  IF raws = <<>> THEN S.out ELSE LineModeOn(LineRead(S, Head(raws)), Tail(raws))

\* the location and telemetry events among o, by their content
DataEvents(o) ==
  LET x == SelectSeq(o, LAMBDA e : e.k /= "raw_line")
  IN  [n \in 1..Len(x) |-> IF x[n].k = "location" THEN <<"location", x[n].lat, x[n].lon>>
                           ELSE <<"telemetry", x[n].pkt>>]

\* C29, as stated: chunk mode and line mode are equivalent on the same byte
\* stream.  Once a newline-delimited stream is handled, however the reads
\* cut it, the location and telemetry events emitted are those line mode
\* emits on the lines of the stream, in the same order; in particular no
\* location comes from a part of a line.
C29_SameAsLineMode ==
  StreamHandled =>
    \A t \in {SentUpTo(Len(obs.reads))} :
      DataEvents(out) = DataEvents(LineModeOn(FreshLineMode, ReadLines(t, "", <<>>)))

-----------------------------------------------------------------------------
(* C30 *)

\* the connection state the window is in once it has handled event e,
\* having been in state c
StateAfter(c, e) ==
  CASE e.k = "raw_line"  -> IF Slice(e.text, 1, 14) = "[Serial error]" THEN -1 ELSE 1
    [] e.k = "location"  -> 1
    [] e.k = "telemetry" -> c

\* the worker has ended on a failure to open or on a read that raised
EndedOnError ==
  /\ w.pc = "done"
  /\ \/ w.ser = "none"
     \/ obs.reads /= <<>> /\ obs.reads[Len(obs.reads)].k = "error"

\* e is a diagnostic of a sink: a failed open or a failed write
SinkDiagnostic(e) ==
  /\ e.k = "raw_line"
  /\ \/ Slice(e.text, 1, 29) = "[Serial error] failed to open"
     \/ e.text \in {"[Serial error] logfile write failed", "[Serial error] binfile write failed",
                    "[Serial error] hexdump write failed"}

\* C30: the connection state follows the raw_line channel.  Handling a
\* raw_line that starts with "[Serial error]" sets the state to ERROR (-1),
\* handling any other raw_line or a location sets it to Connected (1), and
\* handling a telemetry event leaves it.  Consequently, as long as the
\* window is not asked for a new connection: once all events of a worker
\* that ended on a failure to open or on a read error are handled the state
\* is ERROR; and once a line of the device is handled the state is
\* Connected, whatever sink diagnostic was handled before it.
C30_FollowsRawLine ==
  /\ [][\A i \in 1..Len(out) :
          gui'.got = Append(gui.got, i) => gui'.conn_state = StateAfter(gui.conn_state, out[i])]_vars
  /\ [](gui.replaced = <<>> /\ gui.pc = "idle" =>
          /\ EndedOnError /\ Queued = {} => gui.conn_state = -1
          /\ \A n \in {Len(gui.got)} :
               n > 0 /\ out[gui.got[n]].k = "raw_line" /\ out[gui.got[n]].ln /= 0
                     /\ ~SinkDiagnostic(out[gui.got[n]])
                 => gui.conn_state = 1)

\* the write to the log failed for a line: the window handled the
\* diagnostic and then the line; the worker then ended on a read error, and
\* with all its events handled the state is ERROR
C30_Witness ==
  /\ EndedOnError /\ w.ser = "closed"
  /\ Queued = {} /\ gui.replaced = <<>> /\ gui.pc = "idle"
  /\ gui.conn_state = -1
  /\ \E p \in 1..(Len(gui.got) - 1) :
       /\ out[gui.got[p]].k = "raw_line"
       /\ out[gui.got[p]].text = "[Serial error] logfile write failed"
       /\ out[gui.got[p + 1]].k = "raw_line" /\ out[gui.got[p + 1]].text = "{\"mode\": 1}"

-----------------------------------------------------------------------------
(* C31 *)

\* the step is the window handling event number i
Handles(i) == gui'.got = Append(gui.got, i)

\* C31: once start_serial_location has replaced a worker, no event of a
\* replaced worker that was still queued changes the connection state:
\* a step in which the window handles an event emitted before the current
\* worker was constructed leaves the state as it is.
C31_OldEventsInert ==
  [][\A i \in 1..Len(out) :
       Handles(i) /\ i <= gui.old => gui'.conn_state = gui.conn_state]_vars

\* C31, for closeEvent: once closeEvent has set the state to ERROR, no
\* event handled afterwards changes it.
C31_InertAfterClose ==
  [][\A i \in 1..Len(out) :
       Handles(i) /\ gui.closed => gui'.conn_state = gui.conn_state]_vars

\* the new worker is running, the window shows "Connected", and the last
\* event it handled is one of the replaced worker
C31_OldEventShown ==
  /\ gui.replaced /= <<>> /\ gui.pc = "idle" /\ gui.conn_state = 1
  /\ gui.got /= <<>> /\ gui.got[Len(gui.got)] <= gui.old
  /\ \A i \in 1..Len(gui.got) : gui.got[i] <= gui.old

=============================================================================
